---- MODULE Spec2Model ----
(***************************************************************************)
(* Model of the SEO audit tool: the scoring engine (src/scoring.py), the   *)
(* audit engine (src/audit_engine.py) and the background task that runs an *)
(* audit (src/app.py, src/database.py).                                    *)
(*                                                                         *)
(* Representation                                                          *)
(*   - a Python dict is a function whose DOMAIN is its set of keys, so a   *)
(*     missing key is a key outside the DOMAIN and d.get(k, default) is    *)
(*     Get(d, k, default);                                                 *)
(*   - an Optional value is a sequence of length <= 1: None is <<>> and a  *)
(*     value v is <<v>>;                                                   *)
(*   - cls is held in thousandths (0.1 is 100, 0.25 is 250, 1 is 1000) and *)
(*     alt_percentage in tenths of a percent (90 is 900), the one decimal  *)
(*     that round(x, 1) of the audit engine keeps;                         *)
(*   - a raised exception is the result [raised |-> TRUE, ...];            *)
(*   - a text read from a page (heading, title, URL) is the sequence of    *)
(*     its characters.                                                     *)
(*                                                                         *)
(* Specifications                                                          *)
(*   Spec         calculate_seo_score applied to an audit record           *)
(*   SpecExtract  the pure extractors of the audit engine applied to the   *)
(*                facts of a page                                          *)
(*   SpecAudit    run_audit step by step, every browser call succeeding or *)
(*                failing, followed by the scoring of the returned record  *)
(*   SpecApp      the process_audit tasks of the submitted audits (src/    *)
(*                app.py), interleaved at their awaits, with the reports   *)
(*                table of src/database.py and the audit semaphore         *)
(***************************************************************************)
EXTENDS Integers, Sequences, FiniteSets, TLC

VARIABLES
    audit_data,   \* the audit record handed to the scorer
    result,       \* the ScoreResult
    pc,           \* the position of the running task
    engine,       \* the SEOAuditEngine: url, domain, results
    page,         \* the facts of the audited page
    serp,         \* what the search-results page yields: None before it is read
    browser,      \* "none", "open" or "closed"
    exit,         \* how run_audit is leaving: "none", "return" or "raise"
    faults,       \* the steps of the audit that failed
    frame,        \* the local variables of the run_audit call under way
    audit_semaphore,  \* the value of the semaphore: the free slots
    reports,      \* the rows of the reports table, by uuid
    tasks         \* the position of each process_audit task, by uuid

vars == <<audit_data, result, pc, engine, page, serp, browser, exit, faults, frame,
          audit_semaphore, reports, tasks>>

app_vars == <<audit_semaphore, reports, tasks>>

engine_vars == <<engine, page, serp, browser, exit, faults, frame>>

-----------------------------------------------------------------------------
(* Python dict and Optional helpers *)

EmptyDict == [k \in {} |-> 0]

Get(d, k, default) == IF k \in DOMAIN d THEN d[k] ELSE default

With(d, k, v) == [y \in (DOMAIN d) \cup {k} |-> IF y = k THEN v ELSE d[y]]

Without(d, k) == [y \in (DOMAIN d) \ {k} |-> d[y]]

None == <<>>

Some(v) == <<v>>

\* truthiness of an Optional[int]: None and 0 are falsy
TruthyInt(o) == o # None /\ o[1] # 0

\* truthiness of an Optional[str]: None and '' are falsy
TruthyStr(o) == o # None /\ o[1] # ""

RECURSIVE SumOver(_, _)
SumOver(d, keys) ==
    IF keys = {} THEN 0
    ELSE LET k == CHOOSE y \in keys : TRUE
         IN d[k] + SumOver(d, keys \ {k})

\* sum(scores.values())
SumValues(d) == SumOver(d, DOMAIN d)

Max(a, b) == IF a >= b THEN a ELSE b

Abs(a) == IF a >= 0 THEN a ELSE 0 - a

\* Python 3 round(num / den) for den > 0: nearest integer, ties to even
PyRound(num, den) ==
    LET q == num \div den
        r == num % den
    IN IF 2 * r < den THEN q
       ELSE IF 2 * r > den THEN q + 1
       ELSE IF q % 2 = 0 THEN q ELSE q + 1

-----------------------------------------------------------------------------
(* Python str: a text read from a page is the sequence of its characters *)

EmptyText == <<>>

\* the characters \s matches
Whitespace == {" ", "\t", "\n"}

\* the characters \w matches
WordChars ==
    {"A", "B", "C", "D", "E", "F", "G", "H", "I", "J", "K", "L", "M",
     "N", "O", "P", "Q", "R", "S", "T", "U", "V", "W", "X", "Y", "Z",
     "a", "b", "c", "d", "e", "f", "g", "h", "i", "j", "k", "l", "m",
     "n", "o", "p", "q", "r", "s", "t", "u", "v", "w", "x", "y", "z",
     "0", "1", "2", "3", "4", "5", "6", "7", "8", "9", "_"}

\* str.lower()
Lower(text) ==
    LET upper == <<"A", "B", "C", "D", "E", "F", "G", "H", "I", "J", "K", "L", "M",
                   "N", "O", "P", "Q", "R", "S", "T", "U", "V", "W", "X", "Y", "Z">>
        lower == <<"a", "b", "c", "d", "e", "f", "g", "h", "i", "j", "k", "l", "m",
                   "n", "o", "p", "q", "r", "s", "t", "u", "v", "w", "x", "y", "z">>
        LowerChar(c) ==
            IF \E i \in 1..26 : upper[i] = c
            THEN lower[CHOOSE i \in 1..26 : upper[i] = c]
            ELSE c
    IN  [i \in 1..Len(text) |-> LowerChar(text[i])]

\* str.strip()
Strip(text) ==
    LET kept == {i \in 1..Len(text) : text[i] \notin Whitespace}
    IN  IF kept = {} THEN <<>>
        ELSE SubSeq(text, CHOOSE i \in kept : \A k \in kept : i <= k,
                          CHOOSE i \in kept : \A k \in kept : i >= k)

\* str.split(): the maximal runs of non-whitespace characters
Split(text) ==
    LET \* words is the list of finished words, word the one being read
        RECURSIVE SplitFrom(_, _, _)
        SplitFrom(i, word, words) ==
            IF i > Len(text)
            THEN IF word = <<>> THEN words ELSE Append(words, word)
            ELSE IF text[i] \in Whitespace
            THEN SplitFrom(i + 1, <<>>,
                           IF word = <<>> THEN words ELSE Append(words, word))
            ELSE SplitFrom(i + 1, Append(word, text[i]), words)
    IN  SplitFrom(1, <<>>, <<>>)

\* sep.join(words)
Join(sep, words) ==
    LET RECURSIVE JoinFrom(_)
        JoinFrom(i) ==
            IF i > Len(words) THEN <<>>
            ELSE IF i = Len(words) THEN words[i]
            ELSE words[i] \o sep \o JoinFrom(i + 1)
    IN  JoinFrom(1)

\* seq[:n]
Truncate(seq, n) == IF Len(seq) <= n THEN seq ELSE SubSeq(seq, 1, n)

RECURSIVE ToStr(_)
\* the text as one string, for the places that format it into a message
ToStr(text) == IF text = <<>> THEN "" ELSE text[1] \o ToStr(Tail(text))

-----------------------------------------------------------------------------
(* SEOScorer: class constants *)

TECHNICAL_WEIGHT == 40

ONPAGE_WEIGHT == 40

COMPETITIVE_WEIGHT == 20

-----------------------------------------------------------------------------
(* SEOScorer._score_technical *)

SpeedScore(load_time) ==
    IF load_time < 2000 THEN 25
    ELSE IF load_time < 3000 THEN 20
    ELSE IF load_time < 5000 THEN 15
    ELSE IF load_time < 7000 THEN 10
    ELSE 5

\* LcpScore with a top tier worth 10 points, over the 100-point budget
LcpScoreOverBudget(lcp) == IF lcp < 2500 THEN 10 ELSE IF lcp < 4000 THEN 5 ELSE 2

LcpScore(lcp) == IF lcp < 2500 THEN 8 ELSE IF lcp < 4000 THEN 5 ELSE 2

\* cls in thousandths
ClsScore(cls) == IF cls < 100 THEN 7 ELSE IF cls < 250 THEN 4 ELSE 1

\* BrokenScore without the floor at 0
BrokenScoreUnclamped(broken_count) ==
    IF broken_count = 0 THEN 15 ELSE 15 - (broken_count * 3)

BrokenScore(broken_count) ==
    IF broken_count = 0 THEN 15 ELSE Max(0, 15 - (broken_count * 3))

HeadingScore(headings) ==
    IF Get(headings, "has_proper_hierarchy", FALSE) THEN 10
    ELSE IF Get(headings, "h1_count", 0) > 0 THEN 5
    ELSE 0

TechnicalDetails(d) ==
    LET technical == Get(d, "technical", EmptyDict)
        performance == Get(d, "performance", EmptyDict)
        schema == Get(technical, "schema_markup", EmptyDict)
        headings == Get(technical, "headings", EmptyDict)
        broken == Get(technical, "broken_links", EmptyDict)
    IN [https |-> IF Get(technical, "https", FALSE) THEN 5 ELSE 0,
        mobile |-> IF Get(technical, "mobile_responsive", FALSE) THEN 10 ELSE 0,
        robots_txt |-> IF Get(technical, "robots_txt_exists", FALSE) THEN 5 ELSE 0,
        sitemap |-> IF Get(technical, "sitemap_exists", FALSE) THEN 5 ELSE 0,
        schema |-> IF Get(schema, "has_schema", FALSE) THEN 5 ELSE 0,
        headings |-> HeadingScore(headings),
        canonical |-> IF TruthyStr(Get(technical, "canonical", None)) THEN 5 ELSE 0,
        speed |-> SpeedScore(Get(performance, "load_time_ms", 10000)),
        lcp |-> LcpScore(Get(performance, "lcp", 5000)),
        cls |-> ClsScore(Get(performance, "cls", 1000)),
        broken_links |-> BrokenScore(Get(broken, "broken_count", 0))]

\* returns the score and the scorer's breakdown after the call
ScoreTechnical(d, breakdown) ==
    LET scores == TechnicalDetails(d)
    IN [raised |-> FALSE,
        score |-> SumValues(scores),
        breakdown |-> With(breakdown, "technical", scores)]

-----------------------------------------------------------------------------
(* SEOScorer._score_onpage *)

\* TitleScore with the upper end of the ideal band excluded
TitleScoreStrict(title_length) ==
    IF 30 <= title_length /\ title_length < 60 THEN 15
    ELSE IF 20 <= title_length /\ title_length <= 70 THEN 10
    ELSE IF title_length > 0 THEN 5
    ELSE 0

TitleScore(title_length) ==
    IF 30 <= title_length /\ title_length <= 60 THEN 15
    ELSE IF 20 <= title_length /\ title_length <= 70 THEN 10
    ELSE IF title_length > 0 THEN 5
    ELSE 0

DescScore(desc_length) ==
    IF 120 <= desc_length /\ desc_length <= 160 THEN 15
    ELSE IF 100 <= desc_length /\ desc_length <= 180 THEN 10
    ELSE IF desc_length > 0 THEN 5
    ELSE 0

ContentScore(word_count) ==
    IF word_count >= 1500 THEN 20
    ELSE IF word_count >= 1000 THEN 16
    ELSE IF word_count >= 500 THEN 12
    ELSE IF word_count >= 300 THEN 8
    ELSE 4

\* alt_percentage in tenths of a percent
ImageScore(alt_percentage) ==
    IF alt_percentage >= 900 THEN 15
    ELSE IF alt_percentage >= 700 THEN 12
    ELSE IF alt_percentage >= 500 THEN 8
    ELSE IF alt_percentage >= 300 THEN 5
    ELSE 2

InternalScore(internal_links) ==
    IF internal_links >= 10 THEN 20
    ELSE IF internal_links >= 5 THEN 15
    ELSE IF internal_links >= 3 THEN 10
    ELSE IF internal_links >= 1 THEN 5
    ELSE 0

UrlScore(url_struct) ==
    LET url_length == Get(url_struct, "length", 100)
        uses_hyphens == Get(url_struct, "uses_hyphens", FALSE)
        path_depth == Get(url_struct, "path_depth", 5)
        s0 == 15
        s1 == IF url_length > 100 THEN s0 - 5 ELSE s0
        s2 == IF ~uses_hyphens /\ path_depth > 0 THEN s1 - 3 ELSE s1
        s3 == IF path_depth > 4 THEN s2 - 4 ELSE s2
    IN Max(0, s3)

\* OnpageDetails with a missing word count taken for 300 words
OnpageDetailsWordCountDefault(d) ==
    LET onpage == Get(d, "onpage", EmptyDict)
        images == Get(onpage, "images", EmptyDict)
    IN [title |-> TitleScore(Get(onpage, "title_length", 0)),
        meta_description |-> DescScore(Get(onpage, "meta_description_length", 0)),
        content |-> ContentScore(Get(onpage, "word_count", 300)),
        images |-> ImageScore(Get(images, "alt_percentage", 0)),
        internal_links |->
            InternalScore(Get(Get(onpage, "internal_links", EmptyDict), "count", 0)),
        url_structure |-> UrlScore(Get(onpage, "url_structure", EmptyDict))]

OnpageDetails(d) ==
    LET onpage == Get(d, "onpage", EmptyDict)
        images == Get(onpage, "images", EmptyDict)
    IN [title |-> TitleScore(Get(onpage, "title_length", 0)),
        meta_description |-> DescScore(Get(onpage, "meta_description_length", 0)),
        content |-> ContentScore(Get(onpage, "word_count", 0)),
        images |-> ImageScore(Get(images, "alt_percentage", 0)),
        internal_links |->
            InternalScore(Get(Get(onpage, "internal_links", EmptyDict), "count", 0)),
        url_structure |-> UrlScore(Get(onpage, "url_structure", EmptyDict))]

ScoreOnpage(d, breakdown) ==
    LET scores == OnpageDetails(d)
    IN [raised |-> FALSE,
        score |-> SumValues(scores),
        breakdown |-> With(breakdown, "onpage", scores)]

-----------------------------------------------------------------------------
(* SEOScorer._score_competitive *)

PositionScore(position) ==
    IF TruthyInt(position)
    THEN IF position[1] = 1 THEN 40
         ELSE IF position[1] <= 3 THEN 35
         ELSE IF position[1] <= 5 THEN 30
         ELSE IF position[1] <= 10 THEN 20
         ELSE 10
    ELSE 5

RECURSIVE SumField(_, _, _)
\* sum(c.get(key, 0) for c in seq)
SumField(seq, key, i) ==
    IF i > Len(seq) THEN 0
    ELSE Get(seq[i], key, 0) + SumField(seq, key, i + 1)

\* NearAverage with a distance of exactly dist counted as near
NearAverageInclusive(cur, lo, hi, total, n, dist) ==
    /\ lo <= cur
    /\ cur <= hi
    /\ Abs(cur * n - total) <= dist * n

\* band test of lines 253 and 266: lo <= cur <= hi and abs(cur - total / n) < dist,
\* the quotient total / n compared exactly (both sides scaled by n > 0)
NearAverage(cur, lo, hi, total, n, dist) ==
    /\ lo <= cur
    /\ cur <= hi
    /\ Abs(cur * n - total) < dist * n

\* lines 249-273: dividing by len(top_competitors) raises ZeroDivisionError
\* on an empty list
CompetitiveMeta(d, top_competitors) ==
    LET n == Len(top_competitors)
        onpage == Get(d, "onpage", EmptyDict)
        current_title_length == Get(onpage, "title_length", 0)
        current_desc_length == Get(onpage, "meta_description_length", 0)
        title_total == SumField(top_competitors, "title_length", 1)
        desc_total == SumField(top_competitors, "description_length", 1)
    IN IF n = 0
       THEN [raised |-> TRUE, title |-> 0, description |-> 0]
       ELSE [raised |-> FALSE,
             title |->
                 IF NearAverage(current_title_length, 30, 60, title_total, n, 20)
                 THEN 30
                 ELSE IF current_title_length > 0 THEN 20 ELSE 5,
             description |->
                 IF NearAverage(current_desc_length, 120, 160, desc_total, n, 30)
                 THEN 30
                 ELSE IF current_desc_length > 0 THEN 20 ELSE 5]

\* NoCompetitorsMeta with sub-scores of 0
NoCompetitorsMetaZero == [raised |-> FALSE, title |-> 0, description |-> 0]

\* lines 274-276: no competitor entries
NoCompetitorsMeta == [raised |-> FALSE, title |-> 25, description |-> 25]

\* MetaScores without the test of line 248
MetaScoresUnguarded(d, top_competitors) == CompetitiveMeta(d, top_competitors)

\* lines 248-276
MetaScores(d, top_competitors) ==
    IF top_competitors # <<>>
    THEN CompetitiveMeta(d, top_competitors)
    ELSE NoCompetitorsMeta

\* NoCompetitiveData without the test for the error marker
NoCompetitiveDataEmptyOnly(competitors) == DOMAIN competitors = {}

\* line 220: not competitors or 'error' in competitors
NoCompetitiveData(competitors) ==
    DOMAIN competitors = {} \/ "error" \in DOMAIN competitors

ScoreCompetitive(d, breakdown) ==
    LET competitors == Get(d, "competitors", EmptyDict)
        position == Get(competitors, "current_position", None)
        top_competitors == Get(competitors, "top_competitors", <<>>)
        meta == MetaScores(d, top_competitors)
        scores == [serp_position |-> PositionScore(position),
                   title_competitiveness |-> meta.title,
                   description_competitiveness |-> meta.description]
    IN IF NoCompetitiveData(competitors)
       THEN [raised |-> FALSE, score |-> 50, breakdown |-> breakdown]
       ELSE [raised |-> meta.raised,
             score |-> SumValues(scores),
             breakdown |-> With(breakdown, "competitive", scores)]

-----------------------------------------------------------------------------
(* SEOScorer._get_grade *)

\* GetGrade with the A boundary excluded
GetGradeStrict(score) ==
    IF score > 90 THEN "A"
    ELSE IF score >= 80 THEN "B"
    ELSE IF score >= 70 THEN "C"
    ELSE IF score >= 60 THEN "D"
    ELSE "F"

GetGrade(score) ==
    IF score >= 90 THEN "A"
    ELSE IF score >= 80 THEN "B"
    ELSE IF score >= 70 THEN "C"
    ELSE IF score >= 60 THEN "D"
    ELSE "F"

-----------------------------------------------------------------------------
(* SEOScorer._generate_recommendations *)

Rec(priority, category, issue, recommendation) ==
    [priority |-> priority, category |-> category,
     issue |-> issue, recommendation |-> recommendation]

\* one check of lines 302-390: the entries it appends (none or one)
RecHttps(d) ==
    IF ~Get(Get(d, "technical", EmptyDict), "https", FALSE)
    THEN <<Rec("critical", "Technical", "No HTTPS/SSL Certificate",
               "Install an SSL certificate to enable HTTPS. This is critical for security and SEO.")>>
    ELSE <<>>

RecMobile(d) ==
    IF ~Get(Get(d, "technical", EmptyDict), "mobile_responsive", FALSE)
    THEN <<Rec("critical", "Technical", "Not Mobile Responsive",
               "Implement responsive design with proper viewport meta tag. Mobile-first indexing requires mobile optimization.")>>
    ELSE <<>>

\* RecSlowLoad reading the load time as the speed sub-metric does: 10000 ms
\* when missing, slow from 3000 ms on
RecSlowLoadAsScored(d) ==
    LET load_time == Get(Get(d, "performance", EmptyDict), "load_time_ms", 10000)
    IN IF load_time >= 3000
       THEN <<Rec("high", "Performance",
                  "Slow Page Load (" \o ToString(load_time) \o "ms)",
                  "Optimize images, enable caching, minimize CSS/JS, and use a CDN to improve load times.")>>
       ELSE <<>>

\* lines 318-324
RecSlowLoad(d) ==
    LET load_time == Get(Get(d, "performance", EmptyDict), "load_time_ms", 0)
    IN IF load_time > 3000
       THEN <<Rec("high", "Performance",
                  "Slow Page Load (" \o ToString(load_time) \o "ms)",
                  "Optimize images, enable caching, minimize CSS/JS, and use a CDN to improve load times.")>>
       ELSE <<>>

RecSitemap(d) ==
    IF ~Get(Get(d, "technical", EmptyDict), "sitemap_exists", FALSE)
    THEN <<Rec("high", "Technical", "No XML Sitemap",
               "Create and submit an XML sitemap to help search engines discover your pages.")>>
    ELSE <<>>

RecTitle(d) ==
    LET title_length == Get(Get(d, "onpage", EmptyDict), "title_length", 0)
    IN IF title_length = 0
       THEN <<Rec("critical", "On-Page", "Missing Title Tag",
                  "Add a unique, descriptive title tag (30-60 characters) to every page.")>>
       ELSE IF title_length < 30 \/ title_length > 60
       THEN <<Rec("medium", "On-Page",
                  "Title Tag Length (" \o ToString(title_length) \o " chars)",
                  "Optimize title tag length to 30-60 characters for better SERP display.")>>
       ELSE <<>>

RecDescription(d) ==
    IF Get(Get(d, "onpage", EmptyDict), "meta_description_length", 0) = 0
    THEN <<Rec("high", "On-Page", "Missing Meta Description",
               "Add a compelling meta description (120-160 characters) to improve click-through rates.")>>
    ELSE <<>>

RecImages(d) ==
    LET images == Get(Get(d, "onpage", EmptyDict), "images", EmptyDict)
        without_alt == Get(images, "images_without_alt", 0)
    IN IF without_alt > 0
       THEN <<Rec("medium", "On-Page",
                  ToString(without_alt) \o " Images Missing Alt Text",
                  "Add descriptive alt text to all images for accessibility and SEO.")>>
       ELSE <<>>

RecThinContent(d) ==
    LET word_count == Get(Get(d, "onpage", EmptyDict), "word_count", 0)
    IN IF word_count < 300
       THEN <<Rec("high", "Content",
                  "Thin Content (" \o ToString(word_count) \o " words)",
                  "Add more high-quality, relevant content. Aim for at least 500-1000 words for better rankings.")>>
       ELSE <<>>

\* line 382: competitors and not competitors.get('error'); a missing
\* keyword is formatted as None
RecNotRanking(d) ==
    LET competitors == Get(d, "competitors", EmptyDict)
    IN IF /\ DOMAIN competitors # {}
          /\ Get(competitors, "error", "") = ""
          /\ ~TruthyInt(Get(competitors, "current_position", None))
       THEN <<Rec("medium", "Competitive", "Not Ranking in Top 10",
                  "Target keyword '"
                      \o (IF "keyword" \in DOMAIN competitors
                          THEN ToStr(competitors.keyword) ELSE "None")
                      \o "' - Analyze top-ranking competitors and improve content quality.")>>
       ELSE <<>>

\* the list before it is sorted (line 391)
DetectedRecommendations(d) ==
    RecHttps(d) \o RecMobile(d) \o RecSlowLoad(d) \o RecSitemap(d)
        \o RecTitle(d) \o RecDescription(d) \o RecImages(d)
        \o RecThinContent(d) \o RecNotRanking(d)

\* priority_order.get(x['priority'], 3)
PriorityKey(rec) ==
    IF rec.priority = "critical" THEN 0
    ELSE IF rec.priority = "high" THEN 1
    ELSE IF rec.priority = "medium" THEN 2
    ELSE 3

\* InsertByKey placing e in front of the entries of equal key
InsertByKeyBeforeEqual(sorted, e) ==
    LET before == SelectSeq(sorted, LAMBDA x : PriorityKey(x) < PriorityKey(e))
        after == SelectSeq(sorted, LAMBDA x : PriorityKey(x) >= PriorityKey(e))
    IN before \o <<e>> \o after

\* insert e behind every entry whose key is not greater than e's
InsertByKey(sorted, e) ==
    LET before == SelectSeq(sorted, LAMBDA x : PriorityKey(x) <= PriorityKey(e))
        after == SelectSeq(sorted, LAMBDA x : PriorityKey(x) > PriorityKey(e))
    IN before \o <<e>> \o after

RECURSIVE SortFrom(_, _, _)
SortFrom(seq, i, sorted) ==
    IF i > Len(seq) THEN sorted
    ELSE SortFrom(seq, i + 1, InsertByKey(sorted, seq[i]))

\* SortByPriority left out
Unsorted(seq) == seq

\* list.sort(key=...): a stable sort
SortByPriority(seq) == SortFrom(seq, 1, <<>>)

\* recommendations[:10]
MaxRecommendations == 10

GenerateRecommendations(d) ==
    Truncate(SortByPriority(DetectedRecommendations(d)), MaxRecommendations)

-----------------------------------------------------------------------------
(* SEOScorer.calculate_score and calculate_seo_score *)

Raised == [raised |-> TRUE]

\* TotalScore truncating instead of rounding
TotalScoreTruncated(technical_score, onpage_score, competitive_score) ==
    (technical_score * TECHNICAL_WEIGHT
         + onpage_score * ONPAGE_WEIGHT
         + competitive_score * COMPETITIVE_WEIGHT) \div 100

\* TotalScore with the weights 45, 35 and 20
TotalScoreOddWeights(technical_score, onpage_score, competitive_score) ==
    PyRound(technical_score * 45 + onpage_score * 35 + competitive_score * 20, 100)

\* lines 26-30
TotalScore(technical_score, onpage_score, competitive_score) ==
    PyRound(technical_score * TECHNICAL_WEIGHT
                + onpage_score * ONPAGE_WEIGHT
                + competitive_score * COMPETITIVE_WEIGHT, 100)

\* CategoryEntry listing the technical details under every category
CategoryEntryTechnicalDetails(score, weight, breakdown, name) ==
    [score |-> score, weight |-> weight,
     details |-> Get(breakdown, "technical", EmptyDict)]

\* lines 35-51: one category of the breakdown
CategoryEntry(score, weight, breakdown, name) ==
    [score |-> score, weight |-> weight,
     details |-> Get(breakdown, name, EmptyDict)]

CalculateScore(d) ==
    LET t == ScoreTechnical(d, EmptyDict)
        o == ScoreOnpage(d, t.breakdown)
        c == ScoreCompetitive(d, o.breakdown)
        total_score == TotalScore(t.score, o.score, c.score)
    IN IF t.raised \/ o.raised \/ c.raised
       THEN Raised
       ELSE [raised |-> FALSE,
             total_score |-> total_score,
             grade |-> GetGrade(total_score),
             breakdown |->
                 [technical |->
                      CategoryEntry(t.score, TECHNICAL_WEIGHT, c.breakdown, "technical"),
                  onpage |->
                      CategoryEntry(o.score, ONPAGE_WEIGHT, c.breakdown, "onpage"),
                  competitive |->
                      CategoryEntry(c.score, COMPETITIVE_WEIGHT, c.breakdown, "competitive")],
             recommendations |-> GenerateRecommendations(d)]

CalculateSeoScore(d) == CalculateScore(d)

-----------------------------------------------------------------------------
(* Audit records: the shapes SEOAuditEngine produces (src/audit_engine.py) *)

\* AnalyzeHeadings taking any h1 for a proper hierarchy
AnalyzeHeadingsAnyH1(h1) ==
    [structure |-> [h1 |-> h1],
     h1_count |-> Len(h1),
     h1_text |-> IF h1 # <<>> THEN h1[1] ELSE EmptyText,
     has_proper_hierarchy |-> Len(h1) >= 1]

\* _analyze_headings, from the texts of the page's h1 tags
AnalyzeHeadings(h1) ==
    [structure |-> [h1 |-> h1],
     h1_count |-> Len(h1),
     h1_text |-> IF h1 # <<>> THEN h1[1] ELSE EmptyText,
     has_proper_hierarchy |-> Len(h1) = 1]

\* _analyze_images with the share of the images lacking alt text
AnalyzeImagesShareWithout(total_images, images_with_alt) ==
    [total_images |-> total_images,
     images_with_alt |-> images_with_alt,
     images_without_alt |-> total_images - images_with_alt,
     alt_percentage |-> IF total_images > 0
                        THEN PyRound((total_images - images_with_alt) * 1000,
                                     total_images)
                        ELSE 0]

\* _analyze_images, from the number of img tags and of those with alt text;
\* round(with_alt / total * 100, 1) in tenths of a percent
AnalyzeImages(total_images, images_with_alt) ==
    [total_images |-> total_images,
     images_with_alt |-> images_with_alt,
     images_without_alt |-> total_images - images_with_alt,
     alt_percentage |-> IF total_images > 0
                        THEN PyRound(images_with_alt * 1000, total_images)
                        ELSE 0]

\* The text of an ld+json script block, by what json.loads makes of it: a
\* JSON object (a dict), a JSON array (a list) or no JSON at all.
JsonObject(data) == [kind |-> "object", data |-> data]

JsonArray == [kind |-> "array"]

Malformed == [kind |-> "malformed"]

\* ExtractSchemaType reporting a block that does not parse like one
\* without @type
ExtractSchemaTypeUnknown(schema_json) ==
    IF schema_json.kind = "object"
    THEN Get(schema_json.data, "@type", "Unknown")
    ELSE "Unknown"

\* _extract_schema_type: json.loads raises on malformed text and list.get
\* raises AttributeError on an array; the bare except turns both into 'Invalid'
ExtractSchemaType(schema_json) ==
    IF schema_json.kind = "object"
    THEN Get(schema_json.data, "@type", "Unknown")
    ELSE "Invalid"

\* _detect_schema, from script.string of every ld+json script block;
\* script.string is None for a block without text
DetectSchema(schema_scripts) ==
    LET \* [self._extract_schema_type(script.string)
        \*  for script in schema_scripts if script.string]
        RECURSIVE SchemaTypesFrom(_)
        SchemaTypesFrom(i) ==
            IF i > Len(schema_scripts) THEN <<>>
            ELSE IF schema_scripts[i] # None
            THEN <<ExtractSchemaType(schema_scripts[i][1])>> \o SchemaTypesFrom(i + 1)
            ELSE SchemaTypesFrom(i + 1)
    IN  [has_schema |-> Len(schema_scripts) > 0,
         schema_count |-> Len(schema_scripts),
         schema_types |-> SchemaTypesFrom(1)]

ArticleBlock == Some(JsonObject([context |-> "https://schema.org"] @@ ("@type" :> "Article")))

\* CleanKeyword with the hyphens removed too
CleanKeywordNoHyphen(text) ==
    SelectSeq(Strip(Lower(text)), LAMBDA c : c \in WordChars \cup Whitespace)

\* the cleaned lower-case text of _detect_primary_keyword (lines 354-361)
CleanKeyword(text) ==
    SelectSeq(Strip(Lower(text)),
              LAMBDA c : c \in WordChars \cup Whitespace \cup {"-"})

\* keyword.split()[:5]
MaxKeywordWords == 5

\* DetectPrimaryKeyword falling back to the title when the h1 text leaves
\* no word
DetectPrimaryKeywordTitleFallback(results) ==
    LET title == Get(Get(results, "onpage", EmptyDict), "title", EmptyText)
        h1_text == Get(Get(Get(results, "technical", EmptyDict), "headings", EmptyDict),
                       "h1_text", EmptyText)
        words(text) == Truncate(Split(CleanKeyword(text)), MaxKeywordWords)
    IN  IF words(h1_text) # <<>> THEN Some(Join(<<" ">>, words(h1_text)))
        ELSE IF words(title) # <<>> THEN Some(Join(<<" ">>, words(title)))
        ELSE None

\* _detect_primary_keyword, from self.results
DetectPrimaryKeyword(results) ==
    LET title == Get(Get(results, "onpage", EmptyDict), "title", EmptyText)
        h1_text == Get(Get(Get(results, "technical", EmptyDict),
                           "headings", EmptyDict), "h1_text", EmptyText)
        words(text) == Truncate(Split(CleanKeyword(text)), MaxKeywordWords)
        keyword(text) ==
            IF words(text) # <<>> THEN Some(Join(<<" ">>, words(text))) ELSE None
    IN IF h1_text # EmptyText THEN keyword(h1_text)
       ELSE IF title # EmptyText THEN keyword(title)
       ELSE None

TextSeo == <<"S", "E", "O">>

TextOne == <<"O", "n", "e">>

TextTwo == <<"T", "w", "o">>

\* links = soup.find_all('a', href=True)[:20]
MaxLinksChecked == 20

\* the summary _check_broken_links returns
BrokenLinks(checked, broken_count) ==
    [checked |-> checked, broken_count |-> broken_count]

\* _analyze_url_structure
UrlStructure(length, path_depth, uses_hyphens) ==
    [length |-> length, path_depth |-> path_depth, uses_hyphens |-> uses_hyphens]

\* one entry of top_competitors (lines 254-261)
Competitor(position, title_length, description_length) ==
    [position |-> position,
     title_length |-> title_length,
     description_length |-> description_length]

\* the two dicts _audit_serp returns (lines 270-282)
SerpResult(keyword, current_position, top_competitors) ==
    [keyword |-> keyword,
     current_position |-> current_position,
     top_competitors |-> top_competitors,
     total_results_analyzed |-> 10]

SerpError(keyword, message) ==
    [keyword |-> keyword, error |-> message, top_competitors |-> <<>>]

-----------------------------------------------------------------------------
(* Bounds of the explored inputs *)

\* broken_count ranges over 0..MaxBroken and MaxLinksChecked
MaxBroken == 6

\* current_position ranges over None and 1..MaxPosition
MaxPosition == 11

\* top_competitors lists of up to MaxTop entries
MaxTop == 2

\* img tags on a page
MaxImages == 10

\* internal links on a page
MaxInternal == 11

\* every threshold of a banded sub-metric with its two neighbours, and 0
Around(thresholds) ==
    {0} \cup UNION {{t - 1, t, t + 1} : t \in thresholds}

LoadTimes == Around({2000, 3000, 5000, 7000})

LcpValues == Around({2500, 4000})

ClsValues == Around({100, 250})

TitleLengths == Around({1, 20, 30, 60, 70})

DescLengths == Around({1, 100, 120, 160, 180})

WordCounts == Around({300, 500, 1000, 1500})

UrlStructures ==
    {UrlStructure(l, p, h) : l \in {25, 100, 101}, p \in {0, 1, 4, 5}, h \in BOOLEAN}
        \cup {EmptyDict}

CompetitorEntries ==
    {Competitor(1, 25, 110), Competitor(2, 26, 111),
     Competitor(2, 45, 140), Competitor(3, 66, 171)}

RECURSIVE ListsUpTo(_, _)
ListsUpTo(S, n) ==
    IF n = 0 THEN {<<>>}
    ELSE LET shorter == ListsUpTo(S, n - 1)
         IN shorter \cup {Append(l, e) : l \in {x \in shorter : Len(x) = n - 1}, e \in S}

TopCompetitorLists == ListsUpTo(CompetitorEntries, MaxTop)

Positions == {None} \cup {Some(n) : n \in 0..MaxPosition}

-----------------------------------------------------------------------------
(* Profiles and their variants *)

Set2(d, s, k, v) == With(d, s, With(Get(d, s, EmptyDict), k, v))

Del2(d, s, k) == IF s \in DOMAIN d THEN With(d, s, Without(d[s], k)) ELSE d

\* the record of spec section 8's end-to-end scenario: top tier everywhere,
\* no competitive data
BestRecord ==
    [url |-> "https://example.com/seo-guide",
     domain |-> "example.com",
     technical |->
         [https |-> TRUE, mobile_responsive |-> TRUE,
          canonical |-> Some("https://example.com/seo-guide"),
          headings |-> AnalyzeHeadings(<<TextSeo>>),
          robots_txt_exists |-> TRUE, sitemap_exists |-> TRUE,
          schema_markup |-> DetectSchema(<<ArticleBlock>>),
          broken_links |-> BrokenLinks(MaxLinksChecked, 0)],
     onpage |->
         [title_length |-> 45, meta_description_length |-> 140,
          word_count |-> 1600,
          images |-> AnalyzeImages(MaxImages, MaxImages),
          internal_links |-> [count |-> 12],
          url_structure |-> UrlStructure(29, 1, TRUE)],
     performance |-> [load_time_ms |-> 1500, lcp |-> 2000, cls |-> 50],
     primary_keyword |-> Some(Lower(TextSeo))]

\* every sub-check failed or in its worst tier, not ranking
WorstRecord ==
    [url |-> "http://example.com/a_b/c/d/e/f",
     domain |-> "example.com",
     technical |->
         [https |-> FALSE, mobile_responsive |-> FALSE,
          canonical |-> None,
          headings |-> AnalyzeHeadings(<<>>),
          robots_txt_exists |-> FALSE, sitemap_exists |-> FALSE,
          schema_markup |-> DetectSchema(<<>>),
          broken_links |-> BrokenLinks(MaxLinksChecked, MaxLinksChecked)],
     onpage |->
         [title_length |-> 0, meta_description_length |-> 0,
          word_count |-> 0,
          images |-> AnalyzeImages(MaxImages, 0),
          internal_links |-> [count |-> 0],
          url_structure |-> UrlStructure(101, 5, FALSE)],
     performance |-> [load_time_ms |-> 10000, lcp |-> 5000, cls |-> 1000],
     primary_keyword |-> Some(Lower(TextOne)),
     competitors |-> SerpResult(Lower(TextOne), None, <<Competitor(1, 45, 140)>>)]

\* middle tiers, ranking fourth
MidRecord ==
    [url |-> "https://example.com/blog/post",
     domain |-> "example.com",
     technical |->
         [https |-> TRUE, mobile_responsive |-> FALSE,
          canonical |-> Some(""),
          headings |-> AnalyzeHeadings(<<TextOne, TextTwo>>),
          robots_txt_exists |-> TRUE, sitemap_exists |-> FALSE,
          schema_markup |-> DetectSchema(<<>>),
          broken_links |-> BrokenLinks(MaxLinksChecked, 2)],
     onpage |->
         [title_length |-> 65, meta_description_length |-> 110,
          word_count |-> 700,
          images |-> AnalyzeImages(MaxImages, 6),
          internal_links |-> [count |-> 4],
          url_structure |-> UrlStructure(29, 2, FALSE)],
     performance |-> [load_time_ms |-> 3500, lcp |-> 3000, cls |-> 150],
     primary_keyword |-> Some(Lower(TextOne)),
     competitors |-> SerpResult(Lower(TextOne), Some(4), <<Competitor(1, 45, 140)>>)]

\* a record with no section at all
BareRecord == [url |-> "https://example.com", domain |-> "example.com"]

Profiles == {BestRecord, WorstRecord, MidRecord, BareRecord}

\* d with one signal, or one section, replaced or removed
Variants(d) ==
    UNION {
        {Without(d, s) : s \in {"technical", "onpage", "performance", "competitors"}},
        {With(d, s, EmptyDict) : s \in {"technical", "onpage", "performance", "competitors"}},
        {Del2(d, "technical", k) :
            k \in {"https", "mobile_responsive", "robots_txt_exists", "sitemap_exists",
                   "schema_markup", "headings", "canonical", "broken_links"}},
        {Set2(d, "technical", k, b) :
            k \in {"https", "mobile_responsive", "robots_txt_exists", "sitemap_exists"},
            b \in BOOLEAN},
        {Set2(d, "technical", "schema_markup", DetectSchema(b)) : b \in {<<>>, <<ArticleBlock>>}},
        {Set2(d, "technical", "headings", AnalyzeHeadings(h)) :
            h \in {<<>>, <<TextOne>>, <<TextOne, TextTwo>>}},
        {Set2(d, "technical", "canonical", c) :
            c \in {None, Some(""), Some("https://example.com/page")}},
        {Set2(d, "technical", "broken_links", BrokenLinks(MaxLinksChecked, n)) :
            n \in (0..MaxBroken) \cup {MaxLinksChecked}},
        {Del2(d, "performance", k) : k \in {"load_time_ms", "lcp", "cls"}},
        {Set2(d, "performance", "load_time_ms", v) : v \in LoadTimes},
        {Set2(d, "performance", "lcp", v) : v \in LcpValues},
        {Set2(d, "performance", "cls", v) : v \in ClsValues},
        {Del2(d, "onpage", k) :
            k \in {"title_length", "meta_description_length", "word_count",
                   "images", "internal_links", "url_structure"}},
        {Set2(d, "onpage", "title_length", v) : v \in TitleLengths},
        {Set2(d, "onpage", "meta_description_length", v) : v \in DescLengths},
        {Set2(d, "onpage", "word_count", v) : v \in WordCounts},
        {Set2(d, "onpage", "images", AnalyzeImages(0, 0))},
        {Set2(d, "onpage", "images", AnalyzeImages(MaxImages, w)) : w \in 0..MaxImages},
        {Set2(d, "onpage", "internal_links", [count |-> n]) : n \in 0..MaxInternal},
        {Set2(d, "onpage", "url_structure", u) : u \in UrlStructures},
        {With(d, "competitors", SerpError(Lower(TextSeo), m)) : m \in {"", "Timeout 30000ms exceeded"}},
        {Set2(d, "competitors", "current_position", p) : p \in Positions},
        {Set2(d, "competitors", "top_competitors", l) : l \in TopCompetitorLists},
        {Del2(d, "competitors", k) : k \in {"current_position", "top_competitors", "keyword"}}
    }

\* d itself and its variants
UpToOne(d) == {d} \cup Variants(d)

-----------------------------------------------------------------------------
(* Specification: score one audit record *)

NoResult == [raised |-> FALSE]

\* the limit of audits running at once, which the deployment sets through
\* the environment (10 when it sets nothing); a small limit is explored,
\* with more audits submitted than it admits
MAX_CONCURRENT_AUDITS == 2

\* no audit submitted
AppIdle ==
    /\ audit_semaphore = MAX_CONCURRENT_AUDITS
    /\ reports = EmptyDict
    /\ tasks = EmptyDict

\* no audit engine at work
EngineIdle ==
    /\ engine = EmptyDict
    /\ page = EmptyDict
    /\ serp = None
    /\ browser = "none"
    /\ exit = "none"
    /\ faults = {}
    /\ frame = EmptyDict

\* the explored audit records: every profile with up to two signals changed
Init ==
    /\ \E p \in Profiles : \E q \in UpToOne(p) : audit_data \in UpToOne(q)
    /\ result = NoResult
    /\ pc = "audited"
    /\ EngineIdle
    /\ AppIdle

\* calculate_seo_score(audit_data), as process_audit calls it
Score ==
    /\ pc = "audited"
    /\ result' = CalculateSeoScore(audit_data)
    /\ pc' = "scored"
    /\ UNCHANGED <<audit_data, engine_vars, app_vars>>

Next == Score

Spec == Init /\ [][Next]_vars

-----------------------------------------------------------------------------
(* Properties of the scoring engine *)

Scored == pc = "scored"

Categories == {"technical", "onpage", "competitive"}

\* the signal d[s][k], or default when the section or the key is missing
Signal(d, s, k, default) == Get(Get(d, s, EmptyDict), k, default)

\* the sub-signal d[s][k][j]
SubSignal(d, s, k, j, default) == Get(Signal(d, s, k, EmptyDict), j, default)

Competitors == Get(audit_data, "competitors", EmptyDict)

BrokenCount == SubSignal(audit_data, "technical", "broken_links", "broken_count", 0)

\* C1: every scored record gets an integer total_score in 0..100 and three
\* category scores in 0..100.
C1_ScoresInRange ==
    Scored =>
        /\ result.raised = FALSE
        /\ result.total_score \in 0..100
        /\ \A c \in Categories : result.breakdown[c].score \in 0..100

\* a record with more broken links than the 15 points can pay for, scored
\* with every other technical sub-metric in its lowest tier
C1_Witness ==
    /\ Scored
    /\ BrokenCount > 5
    /\ result.breakdown.technical.score = 8

\* C2: total_score is the integer nearest to
\* (40*technical + 40*onpage + 20*competitive) / 100 (ties to even), taken
\* over the category scores of the breakdown, and the weights sum to 100.
C2_WeightedTotal ==
    Scored =>
        LET b == result.breakdown
            w == 40 * b.technical.score + 40 * b.onpage.score
                     + 20 * b.competitive.score
            diff == 100 * result.total_score - w
        IN /\ diff \in (0 - 50)..50
           /\ Abs(diff) = 50 => result.total_score % 2 = 0
           /\ b.technical.weight + b.onpage.weight + b.competitive.weight = 100

\* a weighted sum whose fraction is above one half, so the total is rounded up
C2_Witness ==
    /\ Scored
    /\ LET b == result.breakdown
       IN (40 * b.technical.score + 40 * b.onpage.score
               + 20 * b.competitive.score) % 100 > 50

TopTechnical(d) ==
    /\ Signal(d, "technical", "https", FALSE)
    /\ Signal(d, "technical", "mobile_responsive", FALSE)
    /\ Signal(d, "technical", "robots_txt_exists", FALSE)
    /\ Signal(d, "technical", "sitemap_exists", FALSE)
    /\ SubSignal(d, "technical", "schema_markup", "has_schema", FALSE)
    /\ SubSignal(d, "technical", "headings", "h1_count", 0) = 1
    /\ SubSignal(d, "technical", "headings", "has_proper_hierarchy", FALSE)
    /\ TruthyStr(Signal(d, "technical", "canonical", None))
    /\ Signal(d, "performance", "load_time_ms", 10000) < 2000
    /\ Signal(d, "performance", "lcp", 5000) < 2500
    /\ Signal(d, "performance", "cls", 1000) < 100
    /\ SubSignal(d, "technical", "broken_links", "broken_count", 1) = 0

TopOnpage(d) ==
    /\ Signal(d, "onpage", "title_length", 0) \in 30..60
    /\ Signal(d, "onpage", "meta_description_length", 0) \in 120..160
    /\ Signal(d, "onpage", "word_count", 0) >= 1500
    /\ SubSignal(d, "onpage", "images", "alt_percentage", 0) >= 900
    /\ SubSignal(d, "onpage", "internal_links", "count", 0) >= 10
    /\ SubSignal(d, "onpage", "url_structure", "length", 101) <= 100
    /\ SubSignal(d, "onpage", "url_structure", "uses_hyphens", FALSE)
    /\ SubSignal(d, "onpage", "url_structure", "path_depth", 5) <= 4

\* the competitors entry is absent, empty or carries an error marker
NoCompetitors == DOMAIN Competitors = {} \/ "error" \in DOMAIN Competitors

\* C3: top tier in every technical sub-metric scores technical = 100, top
\* tier in every on-page sub-metric scores onpage = 100, and both with no
\* competitive data give total_score 90 and grade A.
C3_TopTierScores ==
    Scored =>
        /\ TopTechnical(audit_data) => result.breakdown.technical.score = 100
        /\ TopOnpage(audit_data) => result.breakdown.onpage.score = 100
        /\ TopTechnical(audit_data) /\ TopOnpage(audit_data) /\ NoCompetitors
               => result.total_score = 90 /\ result.grade = "A"

\* a top-tier record at the upper end of the ideal title band, without
\* competitive data
C3_Witness ==
    /\ Scored
    /\ TopTechnical(audit_data)
    /\ TopOnpage(audit_data)
    /\ NoCompetitors
    /\ Signal(audit_data, "onpage", "title_length", 0) = 60

\* C4: scoring never raises: every record gets a complete ScoreResult.
C4_ScoringTotal ==
    Scored =>
        /\ result.raised = FALSE
        /\ {"total_score", "grade", "breakdown", "recommendations"}
               \subseteq DOMAIN result

\* a record without its technical section whose competitive search failed
C4_Witness ==
    /\ Scored
    /\ "technical" \notin DOMAIN audit_data
    /\ "error" \in DOMAIN Competitors
    /\ result.raised = FALSE

\* C5: without competitive data (competitors absent, empty or with an error
\* marker) the competitive score is exactly 50.
C5_NeutralCompetitive ==
    Scored /\ NoCompetitors => result.breakdown.competitive.score = 50

\* an error marker next to a first-place current_position
C5_Witness ==
    /\ Scored
    /\ "error" \in DOMAIN Competitors
    /\ Get(Competitors, "current_position", None) = Some(1)
    /\ result.breakdown.competitive.score = 50

\* competitors data without an error marker and with no competitor entry
EmptyTopCompetitors ==
    /\ DOMAIN Competitors # {}
    /\ "error" \notin DOMAIN Competitors
    /\ Get(Competitors, "top_competitors", <<>>) = <<>>

\* C6: competitors data present, no error marker, top_competitors empty:
\* both competitiveness sub-scores are 25 and the competitive score is the
\* SERP-position points plus 50.
C6_EmptyCompetitorsDefault ==
    Scored /\ EmptyTopCompetitors =>
        LET c == result.breakdown.competitive
        IN /\ c.details.title_competitiveness = 25
           /\ c.details.description_competitiveness = 25
           /\ c.score = c.details.serp_position + 50

\* ranking third with an empty competitor list
C6_Witness ==
    /\ Scored
    /\ EmptyTopCompetitors
    /\ Get(Competitors, "current_position", None) = Some(3)
    /\ result.breakdown.competitive.score = 85

\* C7: the broken-link sub-score is 15 at broken_count 0, never negative, 0
\* from broken_count 5 on, and no smaller count scores lower.
C7_BrokenLinkScore ==
    Scored =>
        LET s == result.breakdown.technical.details.broken_links
        IN /\ BrokenCount = 0 => s = 15
           /\ s >= 0
           /\ BrokenCount >= 5 => s = 0
           /\ \A m \in 0..BrokenCount : BrokenScore(m) >= s

\* a record between the two ends: some points lost, some kept
C7_Witness ==
    /\ Scored
    /\ BrokenCount = 4
    /\ result.breakdown.technical.details.broken_links = 3

\* rank of a priority in the order critical, high, medium, low
PriorityRank(p) ==
    CASE p = "critical" -> 0
      [] p = "high" -> 1
      [] p = "medium" -> 2
      [] p = "low" -> 3

\* C8: at most 10 recommendations, ordered critical, high, medium, low.
C8_RecommendationsSorted ==
    Scored =>
        LET r == result.recommendations
        IN /\ Len(r) <= 10
           /\ \A i, j \in 1..Len(r) :
                  i < j => PriorityRank(r[i].priority) <= PriorityRank(r[j].priority)

\* a critical entry detected after a high one: the missing title after the
\* slow page load
C8_Witness ==
    /\ Scored
    /\ RecSlowLoad(audit_data) # <<>>
    /\ Signal(audit_data, "onpage", "title_length", 0) = 0
    /\ result.recommendations # DetectedRecommendations(audit_data)

\* position of entry e in seq
IndexIn(seq, e) == CHOOSE i \in 1..Len(seq) : seq[i] = e

\* C9: sorting loses and duplicates nothing, and entries of equal priority
\* keep the order in which their checks are evaluated.
C9_StableSort ==
    Scored =>
        LET r == result.recommendations
            detected == DetectedRecommendations(audit_data)
        IN /\ Len(r) = Len(detected)
           /\ {r[i] : i \in 1..Len(r)} = {detected[i] : i \in 1..Len(detected)}
           /\ \A i, j \in 1..Len(r) :
                  i < j /\ r[i].priority = r[j].priority
                      => IndexIn(detected, r[i]) < IndexIn(detected, r[j])

\* all nine checks fire: three critical, four high and two medium entries
C9_Witness ==
    /\ Scored
    /\ Len(result.recommendations) = 9
    /\ result.recommendations # DetectedRecommendations(audit_data)

\* C10: the grade is the band of the same result's total_score.
C10_GradeBands ==
    Scored =>
        LET t == result.total_score
            g == result.grade
        IN /\ g \in {"A", "B", "C", "D", "F"}
           /\ g = "A" <=> t >= 90
           /\ g = "B" <=> t \in 80..89
           /\ g = "C" <=> t \in 70..79
           /\ g = "D" <=> t \in 60..69
           /\ g = "F" <=> t < 60

\* the lowest total that is graded A
C10_Witness ==
    /\ Scored
    /\ result.total_score = 90
    /\ result.grade = "A"
    /\ ~NoCompetitors

\* where the signal of each sub-metric sits in the audit record
SignalOf ==
    [technical |->
         [https |-> <<"technical", "https">>,
          mobile |-> <<"technical", "mobile_responsive">>,
          robots_txt |-> <<"technical", "robots_txt_exists">>,
          sitemap |-> <<"technical", "sitemap_exists">>,
          schema |-> <<"technical", "schema_markup">>,
          headings |-> <<"technical", "headings">>,
          canonical |-> <<"technical", "canonical">>,
          speed |-> <<"performance", "load_time_ms">>,
          lcp |-> <<"performance", "lcp">>,
          cls |-> <<"performance", "cls">>,
          broken_links |-> <<"technical", "broken_links">>],
     onpage |->
         [title |-> <<"onpage", "title_length">>,
          meta_description |-> <<"onpage", "meta_description_length">>,
          content |-> <<"onpage", "word_count">>,
          images |-> <<"onpage", "images">>,
          internal_links |-> <<"onpage", "internal_links">>,
          url_structure |-> <<"onpage", "url_structure">>]]

\* the lowest number of points each sub-metric can award
LowestPoints ==
    [technical |->
         [https |-> 0, mobile |-> 0, robots_txt |-> 0, sitemap |-> 0,
          schema |-> 0, headings |-> 0, canonical |-> 0, speed |-> 5,
          lcp |-> 2, cls |-> 1, broken_links |-> 0],
     onpage |->
         [title |-> 0, meta_description |-> 0, content |-> 4, images |-> 2,
          internal_links |-> 0, url_structure |-> 3]]

SignalMissing(path) ==
    path[1] \notin DOMAIN audit_data \/ path[2] \notin DOMAIN audit_data[path[1]]

Details(c) == result.breakdown[c].details

\* C19 as stated: a sub-metric whose signal is missing gets the lowest
\* number of points it can award
C19_MissingScoresLowest ==
    Scored =>
        \A c \in DOMAIN SignalOf : \A m \in DOMAIN SignalOf[c] :
            SignalMissing(SignalOf[c][m]) => Details(c)[m] = LowestPoints[c][m]

\* C19: no sub-metric awards less than its lowest tier, and a sub-metric
\* whose signal is missing gets that lowest number of points, except
\* broken_links, which gets its full 15 points, and url_structure, which
\* gets 8 of 15 where the lowest is 3
C19_MissingScoresLowestButTwo ==
    Scored =>
        \A c \in DOMAIN SignalOf : \A m \in DOMAIN SignalOf[c] :
            /\ Details(c)[m] >= LowestPoints[c][m]
            /\ SignalMissing(SignalOf[c][m]) =>
                   Details(c)[m] = IF m = "broken_links" THEN 15
                                   ELSE IF m = "url_structure" THEN 8
                                   ELSE LowestPoints[c][m]

\* a record without word count and without broken-link check: 4 points
\* for the content, 15 for the links; its URL structure is supplied and gets
\* the 3 points a missing one would not
C19_Witness ==
    /\ Scored
    /\ "onpage" \in DOMAIN audit_data
    /\ SignalMissing(SignalOf.onpage.content)
    /\ SignalMissing(SignalOf.technical.broken_links)
    /\ Details("onpage").content = 4
    /\ Details("technical").broken_links = 15
    /\ Details("onpage").url_structure = 3

TopCompetitorsScored == Get(Competitors, "top_competitors", <<>>)

\* competitor entries exist and the competitive category is scored from them
CompetitorEntriesExist ==
    /\ ~NoCompetitiveData(Competitors)
    /\ TopCompetitorsScored # <<>>

\* the distance between cur and the average of the competitors' key,
\* times the number of competitors
DistanceTimesCount(cur, key) ==
    LET total == SumField(TopCompetitorsScored, key, 1)
        n == Len(TopCompetitorsScored)
    IN IF cur * n >= total THEN cur * n - total ELSE total - cur * n

\* C24 as stated: with competitor entries, title competitiveness is 30 iff
\* the title length is in 30..60 and at most 20 characters from the average
\* competitor title length, 20 if the title is non-empty otherwise, 5 if it
\* is empty; the same for the description with 120..160 and 30
C24_CompetitivenessWithin ==
    (Scored /\ CompetitorEntriesExist) =>
        LET n == Len(TopCompetitorsScored)
            title == Signal(audit_data, "onpage", "title_length", 0)
            desc == Signal(audit_data, "onpage", "meta_description_length", 0)
        IN /\ Details("competitive").title_competitiveness =
                  IF title \in 30..60 /\ DistanceTimesCount(title, "title_length") <= 20 * n
                  THEN 30 ELSE IF title > 0 THEN 20 ELSE 5
           /\ Details("competitive").description_competitiveness =
                  IF desc \in 120..160
                         /\ DistanceTimesCount(desc, "description_length") <= 30 * n
                  THEN 30 ELSE IF desc > 0 THEN 20 ELSE 5

\* C24: with competitor entries, title competitiveness is 30 iff the title
\* length is in 30..60 and less than 20 characters from the average
\* competitor title length, 20 if the title is non-empty otherwise, 5 if it
\* is empty; the same for the description with 120..160 and less than 30
C24_CompetitivenessCloserThan ==
    (Scored /\ CompetitorEntriesExist) =>
        LET n == Len(TopCompetitorsScored)
            title == Signal(audit_data, "onpage", "title_length", 0)
            desc == Signal(audit_data, "onpage", "meta_description_length", 0)
        IN /\ Details("competitive").title_competitiveness =
                  IF title \in 30..60 /\ DistanceTimesCount(title, "title_length") < 20 * n
                  THEN 30 ELSE IF title > 0 THEN 20 ELSE 5
           /\ Details("competitive").description_competitiveness =
                  IF desc \in 120..160
                         /\ DistanceTimesCount(desc, "description_length") < 30 * n
                  THEN 30 ELSE IF desc > 0 THEN 20 ELSE 5

\* a title of 45 characters against competitors averaging 25, and a
\* description of 140 against 110: in the band, exactly 20 and 30 away
C24_Witness ==
    /\ Scored
    /\ CompetitorEntriesExist
    /\ Signal(audit_data, "onpage", "title_length", 0) = 45
    /\ DistanceTimesCount(45, "title_length") = 20 * Len(TopCompetitorsScored)
    /\ Signal(audit_data, "onpage", "meta_description_length", 0) = 140
    /\ DistanceTimesCount(140, "description_length") = 30 * Len(TopCompetitorsScored)
    /\ Details("competitive").title_competitiveness = 20
    /\ Details("competitive").description_competitiveness = 20

\* the slow-page-load entry is the only one of category Performance
SlowLoadRecommended ==
    \E i \in 1..Len(result.recommendations) :
        result.recommendations[i].category = "Performance"

\* C26 as stated: the slow-page-load recommendation is generated for every
\* record whose speed sub-score is 15 or lower
C26_SlowLoadWheneverSpeedLow ==
    Scored => (Details("technical").speed <= 15 => SlowLoadRecommended)

\* C26: the slow-page-load recommendation is generated exactly for the
\* records that carry a load time over 3000 ms, each of which has a speed
\* sub-score of 15 or lower; a record with a load time of exactly 3000 ms
\* or with no load time has such a speed sub-score and no recommendation
C26_SlowLoadOverThreshold ==
    Scored =>
        /\ SlowLoadRecommended <=>
               (/\ ~SignalMissing(SignalOf.technical.speed)
                /\ audit_data.performance.load_time_ms > 3000)
        /\ SlowLoadRecommended => Details("technical").speed <= 15
        /\ (\/ SignalMissing(SignalOf.technical.speed)
            \/ audit_data.performance.load_time_ms = 3000)
               => (Details("technical").speed <= 15 /\ ~SlowLoadRecommended)

\* a record without load time: speed scored as 10000 ms, nothing recommended
C26_Witness ==
    /\ Scored
    /\ "performance" \in DOMAIN audit_data
    /\ SignalMissing(SignalOf.technical.speed)
    /\ Details("technical").speed = 5
    /\ ~SlowLoadRecommended

\* the points listed in the details of category c, added up
DetailsTotal(c) == SumValues(Details(c))

\* C27 as stated: each category's score is the sum of the points listed in
\* its details, for every record
C27_ScoreIsSumOfDetails ==
    Scored => \A c \in Categories : result.breakdown[c].score = DetailsTotal(c)

\* C27: the technical and the on-page score are the sums of the points
\* listed in their details, and so is the competitive score of a record
\* with competitive data; a record scored with the neutral fallback has a
\* competitive score of 50 and no competitive details
C27_ScoreIsSumOfDetailsButFallback ==
    Scored =>
        /\ \A c \in {"technical", "onpage"} :
               result.breakdown[c].score = DetailsTotal(c)
        /\ IF NoCompetitiveData(Competitors)
           THEN /\ result.breakdown.competitive.score = 50
                /\ Details("competitive") = EmptyDict
           ELSE /\ result.breakdown.competitive.score = DetailsTotal("competitive")
                /\ DOMAIN Details("competitive") =
                       {"serp_position", "title_competitiveness",
                        "description_competitiveness"}

\* a failed competitor search next to scored technical and on-page signals
C27_Witness ==
    /\ Scored
    /\ "error" \in DOMAIN Competitors
    /\ result.breakdown.competitive.score = 50
    /\ DetailsTotal("competitive") = 0
    /\ result.breakdown.technical.score = 100
    /\ DetailsTotal("onpage") = 100

\* the weighted sum of the category scores of the result, in hundredths
WeightedHundredths ==
    LET b == result.breakdown
    IN b.technical.score * b.technical.weight
           + b.onpage.score * b.onpage.weight
           + b.competitive.score * b.competitive.weight

\* C28: the weighted sum of the category scores is never halfway between
\* two integers, so total_score is the nearest integer whichever way a tie
\* would be broken: rounding halves up and rounding halves down both give it.
C28_NoRoundingTie ==
    Scored =>
        /\ WeightedHundredths % 100 # 50
        /\ result.total_score = (WeightedHundredths + 50) \div 100
        /\ result.total_score = (WeightedHundredths + 49) \div 100

\* odd category scores whose weighted sum ends in .6 and rounds up
C28_Witness ==
    /\ Scored
    /\ result.breakdown.technical.score % 2 = 1
    /\ result.breakdown.onpage.score % 2 = 1
    /\ WeightedHundredths % 100 = 60
    /\ result.total_score = WeightedHundredths \div 100 + 1

-----------------------------------------------------------------------------
(* SEOAuditEngine: URLs and the search-results analysis *)

StartsWith(text, prefix) ==
    Len(text) >= Len(prefix) /\ SubSeq(text, 1, Len(prefix)) = prefix

EndsWith(text, suffix) ==
    /\ Len(text) >= Len(suffix)
    /\ SubSeq(text, Len(text) - Len(suffix) + 1, Len(text)) = suffix

\* sub in text
Contains(text, sub) ==
    \E i \in 1..(Len(text) - Len(sub) + 1) : SubSeq(text, i, i + Len(sub) - 1) = sub

HttpScheme == <<"h", "t", "t", "p", ":", "/", "/">>

HttpsScheme == <<"h", "t", "t", "p", "s", ":", "/", "/">>

\* _normalize_url
NormalizeUrl(url) ==
    IF ~(StartsWith(url, HttpScheme) \/ StartsWith(url, HttpsScheme))
    THEN HttpsScheme \o url
    ELSE url

\* urlparse(url).netloc of an http(s) URL: the characters between the
\* scheme and the first of / ? #
NetLoc(url) ==
    LET RECURSIVE UpToDelimiter(_)
        UpToDelimiter(text) ==
            IF text = <<>> \/ text[1] \in {"/", "?", "#"} THEN <<>>
            ELSE <<text[1]>> \o UpToDelimiter(Tail(text))
    IN  IF StartsWith(url, HttpsScheme)
        THEN UpToDelimiter(SubSeq(url, Len(HttpsScheme) + 1, Len(url)))
        ELSE IF StartsWith(url, HttpScheme)
        THEN UpToDelimiter(SubSeq(url, Len(HttpScheme) + 1, Len(url)))
        ELSE <<>>

\* SEOAuditEngine.__init__
NewEngine(url) ==
    [url |-> NormalizeUrl(url),
     domain |-> NetLoc(NormalizeUrl(url)),
     results |-> EmptyDict]

\* Math.min(10, searchResults.length)
MaxSerpResults == 10

\* the page.evaluate of lines 223-246 over the div.g elements of the
\* results page: an element without h3 or link is None and is skipped, the
\* others keep their rank i + 1
SerpEntries(elements) ==
    LET RECURSIVE SerpEntriesFrom(_)
        SerpEntriesFrom(i) ==
            IF i > Len(elements) \/ i > MaxSerpResults THEN <<>>
            ELSE IF elements[i] # None
            THEN <<[position |-> i,
                    title |-> elements[i][1].title,
                    url |-> elements[i][1].url,
                    description |-> elements[i][1].description]>>
                     \o SerpEntriesFrom(i + 1)
            ELSE SerpEntriesFrom(i + 1)
    IN  SerpEntriesFrom(1)

\* competitors[:3]
TopCompetitorCount == 3

\* the entry appended at lines 254-261
CompetitorEntry(comp) ==
    [position |-> comp.position,
     url |-> comp.url,
     title |-> comp.title,
     title_length |-> Len(comp.title),
     description |-> comp.description,
     description_length |-> Len(comp.description)]

\* line 253
IsCompetitor(e, comp) == comp.url # e.url /\ ~Contains(comp.url, e.domain)

\* lines 250-261
TopCompetitors(e, competitors) ==
    LET first == Truncate(competitors, TopCompetitorCount)
        RECURSIVE TopCompetitorsFrom(_)
        TopCompetitorsFrom(i) ==
            IF i > Len(first) THEN <<>>
            ELSE IF IsCompetitor(e, first[i])
            THEN <<CompetitorEntry(first[i])>> \o TopCompetitorsFrom(i + 1)
            ELSE TopCompetitorsFrom(i + 1)
    IN  TopCompetitorsFrom(1)

\* lines 263-268: the rank of the first entry on the audited domain
CurrentPosition(e, competitors) ==
    IF \E i \in 1..Len(competitors) : Contains(competitors[i].url, e.domain)
    THEN LET first == CHOOSE i \in 1..Len(competitors) :
                          /\ Contains(competitors[i].url, e.domain)
                          /\ \A j \in 1..(i - 1) : ~Contains(competitors[j].url, e.domain)
         IN Some(competitors[first].position)
    ELSE None

\* _audit_serp when the results page was read (lines 216-275)
AuditSerp(e, keyword, elements) ==
    LET competitors == SerpEntries(elements)
    IN [keyword |-> keyword,
        current_position |-> CurrentPosition(e, competitors),
        top_competitors |-> Truncate(TopCompetitors(e, competitors), TopCompetitorCount),
        total_results_analyzed |-> Len(competitors)]

-----------------------------------------------------------------------------
(* Inputs of the extractors *)

\* texts of up to MaxTextLen characters are enumerated
MaxTextLen == 3

\* div.g elements on a results page
MaxElements == 4

\* ld+json script blocks on a page
MaxBlocks == 3

\* img tags on a page
MaxImgTags == 5

\* the alt attribute of an img tag: absent, empty or a text
AltAttributes == {None, Some(""), Some("logo")}

\* the example of the keyword detector
TextBestRunningShoes ==
    <<"B", "e", "s", "t", " ", "R", "u", "n", "n", "i", "n", "g", " ",
      "S", "h", "o", "e", "s", " ", "2", "0", "2", "4", "!", "!">>

\* seven words
TextSevenWords ==
    <<"a", " ", "B", "-", "c", " ", " ", "d", "!", " ", "e", "\t", "f", " ",
      "g", "_", " ", "h">>

\* get_text(strip=True) of an h1 tag
HeadingTexts ==
    LET alphabet == {"A", "b", "2", "-", "_", " ", "!"}
        short == UNION {[1..n -> alphabet] : n \in 0..MaxTextLen}
    IN  {t \in short : Strip(t) = t} \cup {TextBestRunningShoes, TextSevenWords}

\* get_text() of the title tag
TitleTexts ==
    {EmptyText, <<" ">>, <<"!">>, TextOne, <<" ", "A", "!", " ", "b", " ">>,
     TextSevenWords}

HostA == <<"a", ".", "c", "o">>

HostB == <<"b", ".", "o", "r", "g">>

\* the URLs an audit is asked for
\* the URLs an audit is asked for (submit_audit hands the form field on as
\* typed, here once with a capital letter)
AuditedUrls ==
    {HostA,
     HttpsScheme \o HostA \o <<"/", "p">>,
     HttpScheme \o <<"w", ".">> \o HostA,
     HttpsScheme \o <<"A", ".", "c", "o">>}

SerpElement(url, title, description) ==
    Some([url |-> url, title |-> title, description |-> description])

\* the elements of a results page, each link as its href property gives it
\* (the resolved URL, its host in lower case): without title or link, on the audited
\* host, on a subdomain of it, on another host, on another host with the
\* audited host in the path, on a host that ends like the audited one
SerpElements ==
    {None,
     SerpElement(HttpsScheme \o HostA \o <<"/", "p">>, TextOne, TextSevenWords),
     SerpElement(HttpsScheme \o HostA \o <<"/", "q">>, TextTwo, EmptyText),
     SerpElement(HttpsScheme \o <<"w", ".">> \o HostA \o <<"/">>, TextOne, TextOne),
     SerpElement(HttpsScheme \o HostB \o <<"/">>, TextSeo, TextTwo),
     SerpElement(HttpsScheme \o HostB \o <<"/">> \o HostA, TextSeo, EmptyText),
     SerpElement(HttpsScheme \o <<"x">> \o HostA \o <<"/">>, TextTwo, TextOne)}

\* script.string of an ld+json block
SchemaBlocks ==
    {None, ArticleBlock, Some(JsonObject(EmptyDict)), Some(JsonArray), Some(Malformed)}

-----------------------------------------------------------------------------
(* Specification: apply one extractor to the facts of a page *)

\* the results _detect_primary_keyword reads (lines 43-50)
ResultsOf(p) ==
    [technical |-> [headings |-> AnalyzeHeadings(p.h1)],
     onpage |-> [title |-> p.title, title_length |-> Len(p.title)]]

InitExtract ==
    /\ audit_data = EmptyDict
    /\ result = NoResult
    /\ browser = "none"
    /\ exit = "none"
    /\ faults = {}
    /\ frame = EmptyDict
    /\ AppIdle
    /\ \/ /\ pc = "keyword"
          /\ \E h \in HeadingTexts, t \in TitleTexts, more \in {<<>>, <<TextTwo>>} :
                 page \in {[h1 |-> <<h>> \o more, title |-> t],
                           [h1 |-> <<>>, title |-> t]}
          /\ engine = With(NewEngine(HostA), "results", ResultsOf(page))
          /\ serp = None
       \/ /\ pc = "schema"
          /\ \E n \in 0..MaxBlocks : \E b \in [1..n -> SchemaBlocks] :
                 page = [schema_scripts |-> b]
          /\ engine = NewEngine(HostA)
          /\ serp = None
       \/ /\ pc = "serp"
          /\ page = EmptyDict
          /\ \E u \in AuditedUrls : engine = NewEngine(u)
          /\ \E n \in 0..MaxElements : \E l \in [1..n -> SerpElements] :
                 serp = Some(l)
       \/ /\ pc = "images"
          /\ \E n \in 0..MaxImgTags : \E imgs \in [1..n -> AltAttributes] :
                 page = [images |-> imgs]
          /\ engine = NewEngine(HostA)
          /\ serp = None

\* lines 52-54
ApplyDetectKeyword ==
    /\ pc = "keyword"
    /\ engine' = [engine EXCEPT !.results =
                      With(@, "primary_keyword", DetectPrimaryKeyword(@))]
    /\ pc' = "extracted_keyword"
    /\ UNCHANGED <<audit_data, result, page, serp, browser, exit, faults, frame, app_vars>>

\* line 98
ApplyDetectSchema ==
    /\ pc = "schema"
    /\ engine' = [engine EXCEPT !.results =
                      Set2(@, "technical", "schema_markup", DetectSchema(page.schema_scripts))]
    /\ pc' = "extracted_schema"
    /\ UNCHANGED <<audit_data, result, page, serp, browser, exit, faults, frame, app_vars>>

\* line 58, the results page read
ApplyAuditSerp ==
    /\ pc = "serp"
    /\ engine' = [engine EXCEPT !.results =
                      With(@, "competitors", AuditSerp(engine, Lower(TextSeo), serp[1]))]
    /\ pc' = "extracted_serp"
    /\ UNCHANGED <<audit_data, result, page, serp, browser, exit, faults, frame, app_vars>>

\* line 137: the img tags of the document, img.get('alt') truthy or not
ApplyAnalyzeImages ==
    /\ pc = "images"
    /\ LET images == page.images
           with_alt == {i \in 1..Len(images) : TruthyStr(images[i])}
       IN engine' = [engine EXCEPT !.results =
                         Set2(@, "onpage", "images",
                              AnalyzeImages(Len(images), Cardinality(with_alt)))]
    /\ pc' = "extracted_images"
    /\ UNCHANGED <<audit_data, result, page, serp, browser, exit, faults, frame, app_vars>>

NextExtract ==
    \/ ApplyDetectKeyword
    \/ ApplyDetectSchema
    \/ ApplyAuditSerp
    \/ ApplyAnalyzeImages

SpecExtract == InitExtract /\ [][NextExtract]_vars

-----------------------------------------------------------------------------
(* Properties of the extractors *)

KeywordDetected == pc = "extracted_keyword"

PrimaryKeyword == engine.results.primary_keyword

\* the text the keyword is taken from: the h1 text when the page has an h1
\* with text, otherwise the title
KeywordSource ==
    IF page.h1 # <<>> /\ page.h1[1] # EmptyText THEN page.h1[1] ELSE page.title

\* the tokens of a text with every character other than word characters,
\* whitespace and hyphens removed, lower-cased
KeywordTokens(text) ==
    Split(Lower(SelectSeq(text, LAMBDA c : c \in WordChars \cup Whitespace \cup {"-"})))

TextBestRunningShoesKeyword ==
    <<"b", "e", "s", "t", " ", "r", "u", "n", "n", "i", "n", "g", " ",
      "s", "h", "o", "e", "s", " ", "2", "0", "2", "4">>

C12_NoneOnlyWhenBothEmpty ==
    KeywordDetected =>
        (PrimaryKeyword = None <=>
             /\ (page.h1 = <<>> \/ page.h1[1] = EmptyText)
             /\ page.title = EmptyText)

\* C12: no keyword exactly when the source text (the h1 text when non-empty,
\* otherwise the title) holds no token after the cleanup, which covers the
\* page with both empty; the detector never raises
C12_NoneWhenNoToken ==
    KeywordDetected =>
        /\ "primary_keyword" \in DOMAIN engine.results
        /\ PrimaryKeyword = None <=> KeywordTokens(KeywordSource) = <<>>
        /\ PrimaryKeyword # None => PrimaryKeyword[1] # EmptyText

\* an h1 of punctuation only: no keyword although the title has words
C12_Witness ==
    /\ KeywordDetected
    /\ page.h1 = <<(<<"!">>)>>
    /\ page.title = TextOne
    /\ PrimaryKeyword = None

SerpAnalysed == pc = "extracted_serp"

\* the host of the URL is the audited host or a subdomain of it; host names
\* compare without regard to case
BelongsToDomain(url, domain) ==
    LET host == Lower(NetLoc(url))
        audited == Lower(domain)
    IN  host = audited \/ EndsWith(host, <<".">> \o audited)

\* C16: top_competitors of a competitors result has at most 3 entries and
\* none of them has a URL that belongs to the audited domain
C16_TopCompetitorsForeign ==
    SerpAnalysed =>
        LET top == engine.results.competitors.top_competitors
        IN  /\ Len(top) <= 3
            /\ \A i \in 1..Len(top) : ~BelongsToDomain(top[i].url, engine.domain)

SchemaDetected == pc = "extracted_schema"

SchemaMarkup == engine.results.technical.schema_markup

\* the type one block with text is recorded with
DeclaredType(block) ==
    IF block[1].kind # "object" THEN "Invalid"
    ELSE IF "@type" \in DOMAIN block[1].data THEN block[1].data["@type"]
    ELSE "Unknown"

\* C17 as stated: the count is the number of blocks, and there is one type
\* entry per block
C17_OneTypePerBlock ==
    SchemaDetected =>
        /\ SchemaMarkup.schema_count = Len(page.schema_scripts)
        /\ Len(SchemaMarkup.schema_types) = SchemaMarkup.schema_count

\* C17: the count is the number of blocks; there is one type entry, in page
\* order, per block that has text, "Invalid" when the text does not parse to
\* an object; so the number of types is the count less the blocks without
\* text
C17_OneTypePerTextBlock ==
    SchemaDetected =>
        LET with_text == SelectSeq(page.schema_scripts, LAMBDA b : b # None)
            types == SchemaMarkup.schema_types
        IN  /\ SchemaMarkup.schema_count = Len(page.schema_scripts)
            /\ SchemaMarkup.has_schema <=> page.schema_scripts # <<>>
            /\ Len(types) = Len(with_text)
            /\ \A i \in 1..Len(with_text) : types[i] = DeclaredType(with_text[i])

\* a block without text between a malformed one and an article
C17_Witness ==
    /\ SchemaDetected
    /\ page.schema_scripts = <<Some(Malformed), None, ArticleBlock>>
    /\ SchemaMarkup.schema_count = 3
    /\ SchemaMarkup.schema_types = <<"Invalid", "Article">>

ImagesAnalysed == pc = "extracted_images"

ImageAnalysis == engine.results.onpage.images

\* the img tags of the page whose alt attribute is a non-empty text
TagsWithAlt == {i \in 1..Len(page.images) : page.images[i] \notin {None, Some("")}}

\* C21: the image analysis of any page yields alt_percentage 0 when the page
\* has no images, 100.0 when every image has alt text, a value in 0..100 in
\* every case, and images_with_alt + images_without_alt = total_images,
\* total_images being the number of img tags.
C21_ImageAnalysis ==
    ImagesAnalysed =>
        LET a == ImageAnalysis
        IN /\ a.total_images = Len(page.images)
           /\ a.images_with_alt = Cardinality(TagsWithAlt)
           /\ a.images_with_alt + a.images_without_alt = a.total_images
           /\ a.alt_percentage \in 0..1000
           /\ Len(page.images) = 0 => a.alt_percentage = 0
           /\ (Len(page.images) > 0 /\ Cardinality(TagsWithAlt) = Len(page.images))
                  => a.alt_percentage = 1000

\* three images, one without alt attribute and one with an empty one: 33.3
C21_Witness ==
    /\ ImagesAnalysed
    /\ page.images = <<Some("logo"), None, Some("")>>
    /\ ImageAnalysis.alt_percentage = 333
    /\ ImageAnalysis.images_without_alt = 2

-----------------------------------------------------------------------------
(* run_audit: the site under audit and the documents the page shows *)

\* anchors with an href on the audited page, in the pages explored in full
MaxLinks == 2

\* what a navigation yields: the status of the response, or None when
\* page.goto raises
ProbeOutcomes == {Some(200), Some(404), None}

\* the href of the i-th anchor when it leads to a page of the site
LinkHref(i) == <<"/", "p", ToString(i)>>

\* an anchor of the audited page: its href and what a navigation to it yields
Link(href, answer) == [href |-> href, answer |-> answer]

\* hrefs that are no pages: a fragment, a script, a mail address, a phone
\* number, an empty href
FragmentHref == <<"#", "t">>
JavascriptHref == <<"j", "a", "v", "a", "s", "c", "r", "i", "p", "t", ":", "f">>
MailtoHref == <<"m", "a", "i", "l", "t", "o", ":", "a">>
TelHref == <<"t", "e", "l", ":", "1">>

\* a page with one anchor more than the broken-link check samples: the
\* first five lead nowhere, the sixth times out, the last two answer 404
ManyLinks ==
    [i \in 1..(MaxLinksChecked + 1) |->
         IF i = 1 THEN Link(MailtoHref, None)
         ELSE IF i = 2 THEN Link(JavascriptHref, None)
         ELSE IF i = 3 THEN Link(TelHref, None)
         ELSE IF i = 4 THEN Link(EmptyText, None)
         ELSE IF i = 5 THEN Link(FragmentHref, None)
         ELSE IF i = 6 THEN Link(LinkHref(i), None)
         ELSE IF i >= MaxLinksChecked THEN Link(LinkHref(i), Some(404))
         ELSE Link(LinkHref(i), Some(200))]

\* a document: its h1 texts, its title, the startTime of its last
\* largest-contentful-paint entry and the sum of its layout shifts (None
\* when the observer is never called), its load time
Document(h1, title, lcp, cls, load_time) ==
    [h1 |-> h1, title |-> title, lcp |-> lcp, cls |-> cls, load_time |-> load_time]

\* the audited documents
Documents ==
    {Document(h1, title, v[1], v[2], 1500) :
         h1 \in {<<>>, <<TextOne>>, <<TextOne, TextTwo>>},
         title \in {EmptyText, TextSeo},
         v \in {<<None, None>>, <<Some(2000), Some(50)>>,
                <<Some(5000), None>>, <<None, Some(300)>>}}

\* the document the shared page shows: the audited one, a linked page, or
\* the text of robots.txt or sitemap.xml
Showing ==
    IF page.showing = "audited" THEN page.doc
    ELSE IF page.showing = "link"
    THEN Document(<<TextTwo>>, TextTwo, Some(900), None, 700)
    ELSE Document(<<>>, EmptyText, None, None, 100)

\* the results pages of the search
SerpPages ==
    {<<>>,
     <<SerpElement(HttpsScheme \o HostB \o <<"/">>, TextSeo, TextTwo),
       SerpElement(HttpsScheme \o HostA \o <<"/", "p">>, TextOne, TextSevenWords)>>,
     <<None,
       SerpElement(HttpsScheme \o HostB \o <<"/">>, TextSeo, TextTwo)>>}

-----------------------------------------------------------------------------
(* run_audit: the phases *)

\* Skipped without the mailto: prefix
SkippedButMailto(href) ==
    \/ href = EmptyText
    \/ StartsWith(href, <<"#">>)
    \/ StartsWith(href, <<"j", "a", "v", "a", "s", "c", "r", "i", "p", "t", ":">>)
    \/ StartsWith(href, <<"t", "e", "l", ":">>)

\* line 420: the hrefs the loop passes over
Skipped(href) ==
    \/ href = EmptyText
    \/ StartsWith(href, <<"#">>)
    \/ StartsWith(href, <<"j", "a", "v", "a", "s", "c", "r", "i", "p", "t", ":">>)
    \/ StartsWith(href, <<"m", "a", "i", "l", "t", "o", ":">>)
    \/ StartsWith(href, <<"t", "e", "l", ":">>)

\* lines 414-426: the anchors page.goto is called for, by their place in
\* the document, in the order of the calls
Navigations(anchors) ==
    LET links == Truncate(anchors, MaxLinksChecked)
        RECURSIVE From(_)
        From(i) ==
            IF i > Len(links) THEN <<>>
            ELSE IF Skipped(links[i].href) THEN From(i + 1)
            ELSE <<i>> \o From(i + 1)
    IN  From(1)

\* CheckBrokenLinks without the entry for a navigation that raised
CheckBrokenLinksStatusOnly(anchors) ==
    LET links == Truncate(anchors, MaxLinksChecked)
        probed == Navigations(anchors)
        RECURSIVE BrokenFrom(_)
        BrokenFrom(j) ==
            IF j > Len(probed) THEN <<>>
            ELSE LET link == links[probed[j]]
                 IN IF link.answer # None /\ link.answer[1] >= 400
                    THEN <<[url |-> link.href, status |-> link.answer[1]]>>
                             \o BrokenFrom(j + 1)
                    ELSE BrokenFrom(j + 1)
    IN  [checked |-> Len(links),
         broken_count |-> Len(BrokenFrom(1)),
         broken_links |-> BrokenFrom(1)]

\* _check_broken_links over the anchors of the page: an entry for every
\* navigation that raises or is answered with a status of 400 or more
CheckBrokenLinks(anchors) ==
    LET links == Truncate(anchors, MaxLinksChecked)
        probed == Navigations(anchors)
        RECURSIVE BrokenFrom(_)
        BrokenFrom(j) ==
            IF j > Len(probed) THEN <<>>
            ELSE LET link == links[probed[j]]
                 IN IF link.answer = None
                    THEN <<[url |-> link.href, status |-> "timeout/error"]>>
                             \o BrokenFrom(j + 1)
                    ELSE IF link.answer[1] >= 400
                    THEN <<[url |-> link.href, status |-> link.answer[1]]>>
                             \o BrokenFrom(j + 1)
                    ELSE BrokenFrom(j + 1)
    IN  [checked |-> Len(links),
         broken_count |-> Len(BrokenFrom(1)),
         broken_links |-> BrokenFrom(1)]

\* _audit_onpage of a document; the signals that do not depend on the
\* explored facts are those of one fixed page
AuditOnpage(doc, url) ==
    [title |-> doc.title,
     title_length |-> Len(doc.title),
     meta_description_length |-> 140,
     word_count |-> 700,
     images |-> AnalyzeImages(2, 1),
     internal_links |-> [count |-> 4],
     url_structure |-> UrlStructure(Len(url), 0, FALSE)]

\* _audit_performance of a document: lcp and cls start at 0 in the page
\* script and stay there when the observers are never called
AuditPerformance(doc) ==
    [load_time_ms |-> doc.load_time,
     lcp |-> IF doc.lcp # None THEN doc.lcp[1] ELSE 0,
     cls |-> IF doc.cls # None THEN doc.cls[1] ELSE 0]

-----------------------------------------------------------------------------
(* Specification: run_audit, then the scoring of the record it returns *)

\* a browser call inside the try block raises: the except clause raises
\* "Audit failed" in its place and the finally clause runs
Fail(step) ==
    /\ faults' = faults \cup {step}
    /\ frame' = With(frame, "raising", TRUE)
    /\ pc' = "finally"

\* the value of the local variable technical so far, with one more key
Technical(k, v) == With(frame, "technical", With(Get(frame, "technical", EmptyDict), k, v))

InitAudit ==
    /\ audit_data = EmptyDict
    /\ result = NoResult
    /\ pc = "launch"
    /\ engine = NewEngine(HostA)
    /\ \E doc \in Documents, robots \in ProbeOutcomes, sitemap \in ProbeOutcomes :
           \E links \in {ManyLinks} \cup
                   UNION {{[i \in 1..n |->
                                IF i \in fragments THEN Link(FragmentHref, None)
                                ELSE Link(LinkHref(i), answers[i])] :
                               answers \in [1..n -> ProbeOutcomes],
                               fragments \in SUBSET (1..n)} : n \in 0..MaxLinks} :
               page = [doc |-> doc, robots |-> robots, sitemap |-> sitemap,
                       links |-> links, probed |-> <<>>, showing |-> "blank"]
    /\ serp = None
    /\ browser = "none"
    /\ exit = "none"
    /\ faults = {}
    /\ frame = EmptyDict
    /\ AppIdle

\* lines 30-33; outside the try block, a failure leaves run_audit at once
Launch ==
    /\ pc = "launch"
    /\ \/ /\ browser' = "open"
          /\ pc' = "new_page"
          /\ UNCHANGED <<exit, faults>>
       \/ /\ exit' = "raise"
          /\ faults' = faults \cup {"launch"}
          /\ pc' = "failed"
          /\ UNCHANGED browser
    /\ UNCHANGED <<audit_data, result, engine, page, serp, frame, app_vars>>

\* lines 36-37
NewPage ==
    /\ pc = "new_page"
    /\ \/ pc' = "goto" /\ UNCHANGED <<faults, frame>>
       \/ Fail("new_page")
    /\ UNCHANGED <<audit_data, result, engine, page, serp, browser, exit, app_vars>>

\* line 40
Goto ==
    /\ pc = "goto"
    /\ \/ /\ page' = [page EXCEPT !.showing = "audited"]
          /\ pc' = "technical"
          /\ UNCHANGED <<faults, frame>>
       \/ Fail("goto") /\ UNCHANGED page
    /\ UNCHANGED <<audit_data, result, engine, serp, browser, exit, app_vars>>

\* _audit_technical up to the headings (lines 70-88): page.content() and
\* the page.evaluate() of _check_mobile_responsive are not guarded
ReadTechnical ==
    /\ pc = "technical"
    /\ \/ /\ frame' = With(frame, "technical",
                          [https |-> StartsWith(engine.url, HttpsScheme),
                           mobile_responsive |-> TRUE,
                           robots_meta |-> "index, follow",
                           canonical |-> None,
                           headings |-> AnalyzeHeadings(Showing.h1)])
          /\ pc' = "robots"
          /\ UNCHANGED faults
       \/ Fail("technical_content")
       \/ Fail("mobile_evaluate")
    /\ UNCHANGED <<audit_data, result, engine, page, serp, browser, exit, app_vars>>

\* CheckRobotsTxt without its try
CheckRobotsTxtUnguarded ==
    /\ pc = "robots"
    /\ \/ /\ page.robots # None
          /\ frame' = Technical("robots_txt_exists", page.robots[1] = 200)
          /\ page' = [page EXCEPT !.showing = "robots"]
          /\ pc' = "sitemap"
          /\ UNCHANGED faults
       \/ /\ page.robots = None
          /\ Fail("robots")
          /\ UNCHANGED page
    /\ UNCHANGED <<audit_data, result, engine, serp, browser, exit, app_vars>>

\* _check_robots_txt (line 91)
CheckRobotsTxt ==
    /\ pc = "robots"
    /\ frame' = Technical("robots_txt_exists",
                          page.robots # None /\ page.robots[1] = 200)
    /\ page' = [page EXCEPT !.showing = IF page.robots # None THEN "robots" ELSE @]
    /\ pc' = "sitemap"
    /\ UNCHANGED <<audit_data, result, engine, serp, browser, exit, faults, app_vars>>

\* _check_sitemap and _detect_schema (lines 94-97)
CheckSitemap ==
    /\ pc = "sitemap"
    /\ frame' = With(frame, "technical",
                     With(With(frame.technical, "sitemap_exists",
                               page.sitemap # None /\ page.sitemap[1] = 200),
                          "schema_markup", DetectSchema(<<ArticleBlock>>)))
    /\ page' = [page EXCEPT !.showing = IF page.sitemap # None THEN "sitemap" ELSE @]
    /\ pc' = "links"
    /\ UNCHANGED <<audit_data, result, engine, serp, browser, exit, faults, app_vars>>

\* _check_broken_links (line 100): every navigation that is answered
\* changes the document the page shows; page.probed keeps the navigations
ProbeLinks ==
    /\ pc = "links"
    /\ frame' = Technical("broken_links", CheckBrokenLinks(page.links))
    /\ LET probed == Navigations(page.links)
       IN page' = [page EXCEPT
                      !.probed = probed,
                      !.showing =
                          IF \E j \in 1..Len(probed) : page.links[probed[j]].answer # None
                          THEN "link" ELSE @]
    /\ pc' = "onpage"
    /\ UNCHANGED <<audit_data, result, engine, serp, browser, exit, faults, app_vars>>

\* _audit_onpage (line 48): page.content() is not guarded
ReadOnpage ==
    /\ pc = "onpage"
    /\ \/ /\ frame' = With(frame, "onpage", AuditOnpage(Showing, engine.url))
          /\ pc' = "performance"
          /\ UNCHANGED faults
       \/ Fail("onpage_content")
    /\ UNCHANGED <<audit_data, result, engine, page, serp, browser, exit, app_vars>>

\* _audit_performance (line 49): neither page.evaluate() is guarded
ReadPerformance ==
    /\ pc = "performance"
    /\ \/ /\ frame' = With(frame, "performance", AuditPerformance(Showing))
          /\ pc' = "keyword"
          /\ UNCHANGED faults
       \/ Fail("timing_evaluate")
       \/ Fail("vitals_evaluate")
    /\ UNCHANGED <<audit_data, result, engine, page, serp, browser, exit, app_vars>>

\* lines 43-56: self.results is assigned and the keyword detected
DetectKeyword ==
    /\ pc = "keyword"
    /\ LET results == [url |-> engine.url,
                       domain |-> engine.domain,
                       technical |-> frame.technical,
                       onpage |-> frame.onpage,
                       performance |-> frame.performance]
           primary_keyword == DetectPrimaryKeyword(results)
       IN  /\ engine' = [engine EXCEPT !.results =
                             With(results, "primary_keyword", primary_keyword)]
           /\ pc' = IF primary_keyword # None THEN "serp" ELSE "finally"
    /\ UNCHANGED <<audit_data, result, page, serp, browser, exit, faults, frame, app_vars>>

\* line 58: _audit_serp catches whatever its own page raises
SearchCompetitors ==
    /\ pc = "serp"
    /\ \/ \E elements \in SerpPages :
              /\ serp' = Some(elements)
              /\ engine' = [engine EXCEPT !.results =
                                With(@, "competitors",
                                     AuditSerp(engine, @.primary_keyword[1], elements))]
              /\ UNCHANGED faults
       \/ /\ engine' = [engine EXCEPT !.results =
                            With(@, "competitors",
                                 SerpError(@.primary_keyword[1], "Timeout 30000ms exceeded"))]
          /\ faults' = faults \cup {"serp"}
          /\ UNCHANGED serp
    /\ pc' = "finally"
    /\ UNCHANGED <<audit_data, result, page, browser, exit, frame, app_vars>>

\* CloseBrowser as the last statement of the try block
CloseBrowserOnSuccess ==
    /\ pc = "finally"
    /\ browser' = IF Get(frame, "raising", FALSE) THEN browser ELSE "closed"
    /\ pc' = "exit"
    /\ UNCHANGED <<audit_data, result, engine, page, serp, exit, faults, frame, app_vars>>

\* lines 65-66: the finally clause
CloseBrowser ==
    /\ pc = "finally"
    /\ browser' = "closed"
    /\ pc' = "exit"
    /\ UNCHANGED <<audit_data, result, engine, page, serp, exit, faults, frame, app_vars>>

\* run_audit returns self.results (line 60) or raises (line 63);
\* process_audit holds the record as audit_data (src/app.py line 236)
Exit ==
    /\ pc = "exit"
    /\ IF Get(frame, "raising", FALSE)
       THEN /\ exit' = "raise"
            /\ pc' = "failed"
            /\ UNCHANGED audit_data
       ELSE /\ exit' = "return"
            /\ audit_data' = engine.results
            /\ pc' = "audited"
    /\ UNCHANGED <<result, engine, page, serp, browser, faults, frame, app_vars>>

NextAudit ==
    \/ Launch
    \/ NewPage
    \/ Goto
    \/ ReadTechnical
    \/ CheckRobotsTxt
    \/ CheckSitemap
    \/ ProbeLinks
    \/ ReadOnpage
    \/ ReadPerformance
    \/ DetectKeyword
    \/ SearchCompetitors
    \/ CloseBrowser
    \/ Exit
    \/ Score

SpecAudit == InitAudit /\ [][NextAudit]_vars

-----------------------------------------------------------------------------
(* Properties of run_audit *)

Left == exit # "none"

Returned == exit = "return"

\* the browser calls of run_audit that no try of their own guards
UnguardedSteps ==
    {"launch", "new_page", "goto", "technical_content", "mobile_evaluate",
     "onpage_content", "timing_evaluate", "vitals_evaluate"}

BrokenEntryOf(broken, i) ==
    LET j == Cardinality({k \in 1..i :
                             /\ \E n \in 1..Len(page.probed) : page.probed[n] = k
                             /\ \/ page.links[k].answer = None
                                \/ page.links[k].answer[1] >= 400})
    IN  IF j <= Len(broken) /\ broken[j].url = page.links[i].href
        THEN Some(broken[j]) ELSE None

\* C14: a failed robots.txt probe is recorded as robots_txt_exists = false,
\* a failed sitemap probe as sitemap_exists = false, a failed link
\* navigation as a broken entry with status 'timeout/error', a failed
\* search as competitors with an error and no top_competitors; when nothing
\* else fails, run_audit returns the record whatever the combination
C14_SubCheckFailuresRecorded ==
    /\ Left /\ faults \subseteq {"serp"} => Returned
    /\ Returned =>
           /\ page.robots = None => audit_data.technical.robots_txt_exists = FALSE
           /\ page.sitemap = None => audit_data.technical.sitemap_exists = FALSE
           /\ \A i \in 1..Len(page.links) :
                  (page.links[i].href = LinkHref(i) /\ i <= MaxLinksChecked
                       /\ page.links[i].answer = None) =>
                      LET entry == BrokenEntryOf(audit_data.technical.broken_links.broken_links, i)
                      IN  entry # None /\ entry[1].status = "timeout/error"
           /\ "serp" \in faults =>
                  /\ "error" \in DOMAIN audit_data.competitors
                  /\ audit_data.competitors.top_competitors = <<>>

\* all four kinds of sub-check failed in one returned audit
C14_Witness ==
    /\ Returned
    /\ page.robots = None
    /\ page.sitemap = None
    /\ Len(page.links) = 2
    /\ page.links[1] = Link(LinkHref(1), Some(404))
    /\ page.links[2] = Link(LinkHref(2), None)
    /\ "serp" \in faults
    /\ audit_data.technical.broken_links.broken_count = 2

\* C15: when run_audit has returned or raised, a browser that was launched
\* is closed; the browser is not launched only when the launch failed
C15_BrowserClosedOnExit ==
    Left =>
        /\ browser # "open"
        /\ browser = "none" <=> "launch" \in faults

\* run_audit raised after a failed initial load, the browser closed
C15_Witness ==
    /\ exit = "raise"
    /\ "goto" \in faults
    /\ browser = "closed"

\* C18: an audit whose page reports no largest-contentful-paint entry
\* scores 2 points for LCP, and one whose page reports no layout shift
\* scores 1 point for CLS
C18_UnmeasuredVitalsPenalized ==
    Scored /\ Returned =>
        /\ Showing.lcp = None => Details("technical").lcp = 2
        /\ Showing.cls = None => Details("technical").cls = 1

\* C20: has_proper_hierarchy iff the page has exactly one h1; the heading
\* sub-score is 10 iff it has exactly one, 5 iff two or more, 0 iff none
C20_HeadingHierarchy ==
    Scored /\ Returned =>
        LET h1_count == Len(page.doc.h1)
        IN  /\ audit_data.technical.headings.has_proper_hierarchy <=> h1_count = 1
            /\ Details("technical").headings = 10 <=> h1_count = 1
            /\ Details("technical").headings = 5 <=> h1_count >= 2
            /\ Details("technical").headings = 0 <=> h1_count = 0

\* a page with two h1 scored 5 points
C20_Witness ==
    /\ Scored /\ Returned
    /\ Len(page.doc.h1) = 2
    /\ ~audit_data.technical.headings.has_proper_hierarchy
    /\ Details("technical").headings = 5

\* C23: when the on-page and the performance extractor run, the page shows
\* the audited document, and the title and the load time of a returned
\* record are those of the audited document
C23_ExtractorsReadAuditedDocument ==
    /\ pc \in {"onpage", "performance"} => page.showing = "audited"
    /\ Returned =>
           /\ audit_data.onpage.title = page.doc.title
           /\ audit_data.performance.load_time_ms = page.doc.load_time

\* the anchors sampled by the broken-link check
SampledLinks == Truncate(page.links, MaxLinksChecked)

\* the j-th navigation failed or was answered with a status of 400 or more
ProbedBroken(j) ==
    LET answer == page.links[page.probed[j]].answer
    IN  answer = None \/ answer[1] >= 400

\* the navigations of the broken-link check, as C25 describes them: at most
\* 20, in document order, none to a fragment, javascript:, mailto: or tel:
\* link, and the broken list holds exactly the failed ones in probe order
ProbesAndBrokenList ==
    LET report == audit_data.technical.broken_links
        broken == report.broken_links
        bad == SelectSeq(page.probed, LAMBDA i :
                   page.links[i].answer = None \/ page.links[i].answer[1] >= 400)
    IN  /\ Len(page.probed) <= 20
        /\ \A j \in 1..Len(page.probed) :
               /\ page.probed[j] \in 1..Len(page.links)
               /\ j > 1 => page.probed[j - 1] < page.probed[j]
               /\ \A p \in {<<"#">>, SubSeq(JavascriptHref, 1, 11),
                             SubSeq(MailtoHref, 1, 7), SubSeq(TelHref, 1, 4)} :
                      ~StartsWith(page.links[page.probed[j]].href, p)
        /\ \A i \in 1..Len(SampledLinks) :
               page.links[i].href = LinkHref(i) =>
                   \E j \in 1..Len(page.probed) : page.probed[j] = i
        /\ Len(broken) = Len(bad)
        /\ \A n \in 1..Len(bad) :
               LET link == page.links[bad[n]]
               IN  /\ broken[n].url = link.href
                   /\ IF link.answer = None
                      THEN broken[n].status = "timeout/error"
                      ELSE broken[n].status = link.answer[1]
        /\ report.broken_count = Len(broken)
        /\ report.broken_count <= report.checked
        /\ report.checked <= 20

-----------------------------------------------------------------------------
(* Specification: the process_audit tasks of the submitted audits *)

\* audits submitted while the service runs
NumAudits == 3

\* the uuids of the reports
Audits == 1..NumAudits

\* a row of the reports table as create_report inserts it
NewReport == [status |-> "pending", error_message |-> None, pdf_path |-> None]

\* the position of a task: "waiting" for the semaphore, the call it is about
\* to make inside the try block or the except clause, "done" once
\* process_audit has returned, "raised" once an exception has left it
TrySteps ==
    <<"update_processing", "log_processing", "run_seo_audit", "log_data_collected",
      "calculate_seo_score", "log_scored", "generate_pdf_report",
      "log_pdf_generated", "complete_report", "log_completed", "get_report",
      "send_report_email">>

\* the call that follows step in the try block
After(step) ==
    LET i == CHOOSE j \in 1..Len(TrySteps) : TrySteps[j] = step
    IN  TrySteps[i + 1]

Advance(r, step) == tasks' = [tasks EXCEPT ![r] = step]

\* the call raises inside the try block: the except clause is entered
Raise(r) == Advance(r, "except_update")

\* Leave that gives the slot back only when process_audit returns
LeaveHoldingOnRaise(r, how) ==
    /\ tasks' = [tasks EXCEPT ![r] = how]
    /\ audit_semaphore' = IF how = "done" THEN audit_semaphore + 1 ELSE audit_semaphore

\* the end of the async with block: __aexit__ releases the semaphore
\* whether the block returns or an exception leaves it
Leave(r, how) ==
    /\ tasks' = [tasks EXCEPT ![r] = how]
    /\ audit_semaphore' = audit_semaphore + 1

InitApp ==
    /\ audit_data = EmptyDict
    /\ result = NoResult
    /\ pc = "serving"
    /\ EngineIdle
    /\ AppIdle

\* submit_audit: create_report, then process_audit as a background task
SubmitAudit(r) ==
    /\ r \notin DOMAIN tasks
    /\ reports' = With(reports, r, NewReport)
    /\ tasks' = With(tasks, r, "waiting")
    /\ UNCHANGED <<audit_data, result, pc, engine_vars, audit_semaphore>>

\* async with audit_semaphore: acquire returns once a slot is free
Acquire(r) ==
    /\ r \in DOMAIN tasks
    /\ tasks[r] = "waiting"
    /\ audit_semaphore > 0
    /\ audit_semaphore' = audit_semaphore - 1
    /\ Advance(r, TrySteps[1])
    /\ UNCHANGED <<audit_data, result, pc, engine_vars, reports>>

\* db.update_report_status(report_uuid, 'processing')
UpdateStatusProcessing(r) ==
    /\ r \in DOMAIN tasks
    /\ tasks[r] = "update_processing"
    /\ \/ /\ reports' = [reports EXCEPT ![r].status = "processing"]
          /\ Advance(r, After(tasks[r]))
       \/ Raise(r) /\ UNCHANGED reports
    /\ UNCHANGED <<audit_data, result, pc, engine_vars, audit_semaphore>>

\* db.log_event inside the try block
LogEvent(r) ==
    /\ r \in DOMAIN tasks
    /\ tasks[r] \in {"log_processing", "log_data_collected", "log_scored",
                     "log_pdf_generated", "log_completed"}
    /\ Advance(r, After(tasks[r])) \/ Raise(r)
    /\ UNCHANGED <<audit_data, result, pc, engine_vars, audit_semaphore, reports>>

\* run_seo_audit(url), calculate_seo_score(audit_data),
\* generate_pdf_report(...), db.get_report(report_uuid): a value or an
\* exception
Compute(r) ==
    /\ r \in DOMAIN tasks
    /\ tasks[r] \in {"run_seo_audit", "calculate_seo_score", "generate_pdf_report",
                     "get_report"}
    /\ Advance(r, After(tasks[r])) \/ Raise(r)
    /\ UNCHANGED <<audit_data, result, pc, engine_vars, audit_semaphore, reports>>

\* db.complete_report(...)
CompleteReport(r) ==
    /\ r \in DOMAIN tasks
    /\ tasks[r] = "complete_report"
    /\ \/ /\ reports' = [reports EXCEPT ![r].status = "completed",
                                         ![r].pdf_path = Some("report.pdf")]
          /\ Advance(r, After(tasks[r]))
       \/ Raise(r) /\ UNCHANGED reports
    /\ UNCHANGED <<audit_data, result, pc, engine_vars, audit_semaphore>>

\* send_report_email(report), the last statement of the try block; it
\* raises when get_report found no row
SendReportEmail(r) ==
    /\ r \in DOMAIN tasks
    /\ tasks[r] = "send_report_email"
    /\ \/ Leave(r, "done")
       \/ Raise(r) /\ UNCHANGED audit_semaphore
    /\ UNCHANGED <<audit_data, result, pc, engine_vars, reports>>

\* the except clause: db.update_report_status(report_uuid, 'failed',
\* error_message); an exception raised here leaves process_audit
MarkFailed(r) ==
    /\ r \in DOMAIN tasks
    /\ tasks[r] = "except_update"
    /\ \/ /\ reports' = [reports EXCEPT ![r].status = "failed",
                                         ![r].error_message = Some("Audit failed")]
          /\ Advance(r, "except_log")
          /\ UNCHANGED audit_semaphore
       \/ Leave(r, "raised") /\ UNCHANGED reports
    /\ UNCHANGED <<audit_data, result, pc, engine_vars>>

\* the except clause: db.log_event(report_uuid, 'failed', ...) and print
LogFailed(r) ==
    /\ r \in DOMAIN tasks
    /\ tasks[r] = "except_log"
    /\ Leave(r, "done") \/ Leave(r, "raised")
    /\ UNCHANGED <<audit_data, result, pc, engine_vars, reports>>

NextApp ==
    \E r \in Audits :
        \/ SubmitAudit(r)
        \/ Acquire(r)
        \/ UpdateStatusProcessing(r)
        \/ LogEvent(r)
        \/ Compute(r)
        \/ CompleteReport(r)
        \/ SendReportEmail(r)
        \/ MarkFailed(r)
        \/ LogFailed(r)

SpecApp == InitApp /\ [][NextApp]_vars

-----------------------------------------------------------------------------
(* Properties of process_audit *)

\* the tasks inside the async with block
Inside == {r \in DOMAIN tasks : tasks[r] \notin {"waiting", "done", "raised"}}

Finished(r) == r \in DOMAIN tasks /\ tasks[r] \in {"done", "raised"}

\* C22: at most MAX_CONCURRENT_AUDITS tasks are inside the pipeline at once;
\* a task that has left it, by return or by exception, holds no slot, so
\* the free slots are those not held by the tasks inside, and a waiting
\* task can be admitted whenever fewer than the maximum are inside
C22_AtMostMaxInside ==
    /\ Cardinality(Inside) <= MAX_CONCURRENT_AUDITS
    /\ audit_semaphore = MAX_CONCURRENT_AUDITS - Cardinality(Inside)
    /\ \A r \in DOMAIN tasks :
           (tasks[r] = "waiting" /\ Cardinality(Inside) < MAX_CONCURRENT_AUDITS)
               => ENABLED Acquire(r)

\* one audit left by an exception and the maximum inside: the third audit
\* was admitted to the slot the first gave back
C22_Witness ==
    /\ \E r \in DOMAIN tasks : tasks[r] = "raised"
    /\ Cardinality(Inside) = MAX_CONCURRENT_AUDITS
    /\ audit_semaphore = 0

\* C29: once the status of a report is 'completed', no step changes it
C29_CompletedStaysCompleted ==
    [][\A r \in DOMAIN reports :
           reports[r].status = "completed" => reports'[r].status = "completed"]_vars

\* C30: when a process_audit task has finished, by return or by exception,
\* the status of its report is 'completed' or 'failed'
C30_FinishedIsTerminal ==
    \A r \in DOMAIN tasks :
        Finished(r) => reports[r].status \in {"completed", "failed"}

====
